---- MODULE Spec2Model ----
(***************************************************************************)
(* Intensity and peak-demand (MDP) computation of the Player Analysis and  *)
(* Session Intensity Explorer pages.                                       *)
(*                                                                         *)
(* Python values are modelled as tagged records: None, NaN and numbers    *)
(* are distinct values, so that a conversion such as                      *)
(* "float(x) if pd.notna(x) else None" is something a check can refute.    *)
(***************************************************************************)
EXTENDS Integers, Sequences, FiniteSets, TLC

VARIABLES
    pc,                 \* which operation has run: "idle" or the operation's name
    player_session_df,  \* argument of compute_player_mdp_metrics / render_mdp_summary
    metrics,            \* record returned by compute_player_mdp_metrics
    metrics_row,        \* the coach-metrics row handed to the render_* helpers
    st,                 \* the Streamlit elements emitted so far, in order
    trend_data,         \* dict returned by render_early_mid_late_trend
    percentile,         \* argument of classify_intensity_from_percentile
    category,           \* its result
    session_state,      \* st.session_state: survives the runs of the page
    page,               \* position of the Player Analysis script in its current run
    run,                \* module-level variables of the current run
    error,              \* the exception that ended the run, if any
    files,              \* the rows of the raw data file at raw_path
    load_cache,         \* st.cache_data of load_raw_data
    intensity_cache,    \* st.cache_data of get_session_intensity_df
    score_call,         \* the scoring call that has just returned
    session_df,         \* its result
    results,            \* the frames the preset scripts collect, one per preset
    calls,              \* how many times the caller has made its current call
    inv,                \* concurrent invocations of compute_player_mdp_metrics
    locals,             \* their local variables, one frame per invocation
    squad,              \* the team a coach-metrics row was computed against
    percentiles,        \* the dict render_team_comparison returns
    filter_call,        \* the arguments of the apply_filters call in progress
    filtered            \* what apply_filters returned

vars == <<pc, player_session_df, metrics, metrics_row, st, trend_data, percentile, category,
          session_state, page, run, error,
          files, load_cache, intensity_cache, score_call, session_df, results, calls,
          inv, locals, squad, percentiles, filter_call, filtered>>

mdpVars == <<player_session_df, metrics>>

renderVars == <<metrics_row, st>>

trendVars == <<trend_data>>

classVars == <<percentile, category>>

teamVars == <<squad, percentiles>>

callVars == <<pc, player_session_df, metrics, metrics_row, trend_data, percentile, category,
              squad, percentiles>>

concVars == <<inv, locals>>

helperVars == <<callVars, concVars>>

pageVars == <<session_state, page, run, error>>

scoreVars == <<files, load_cache, intensity_cache, score_call, session_df, results>>

filterVars == <<filter_call, filtered>>

----------------------------------------------------------------------------
(* Python / pandas values *)

None == [tag |-> "none"]
NaN == [tag |-> "nan"]
Num(v) == [tag |-> "num", v |-> v]

\* pd.notna: neither None nor NaN
notna(x) == x.tag = "num"

\* pd.isna
isna(x) == ~notna(x)

Unset == [tag |-> "unset"]

----------------------------------------------------------------------------
(* Bounds of the model *)

\* most rows in a player-session frame
MaxRows == 2

\* latest timestamp, in ticks
MaxTick == 5

\* ticks per second: timestamps may be closer than one second
TicksPerSecond == 2

\* most samples in the mp column handed to render_mdp_summary
MaxSamples == 6

\* most session dates in a loaded dataset
MaxDates == 2

\* most player-session rows in the raw data file
MaxScoreRows == 2

\* most players in a session's team
MaxTeam == 3

\* most rows of the session intensity table that is filtered
MaxFilterRows == 3

\* largest early / mid / late average of a coach-metrics row
MaxMp == 21

\* values a cell of an intensity column can hold
IntensityVals == {1, 2}

\* values a cell of the mp column, or an MDP of the coach-metrics row, can hold
MpVals == {1, 2}

----------------------------------------------------------------------------
(* Helpers *)

RECURSIVE GCD(_, _)
GCD(a, b) == IF b = 0 THEN a ELSE GCD(b, a % b)

Abs(a) == IF a < 0 THEN -a ELSE a

\* the rational num/den (den > 0) in lowest terms
Rat(num, den) ==
    LET g == GCD(Abs(num), den)
    IN  IF num = 0 THEN [num |-> 0, den |-> 1] ELSE [num |-> num \div g, den |-> den \div g]

RatLt(a, b) == a.num * b.den < b.num * a.den

RatLe(a, b) == a.num * b.den <= b.num * a.den

SetMax(S) == CHOOSE m \in S : \A x \in S : x <= m

SetMin(S) == CHOOSE m \in S : \A x \in S : m <= x

Range(s) == {s[i] : i \in 1..Len(s)}

\* sequences over S of length exactly n
SeqsOfLen(S, n) == [1..n -> S]

----------------------------------------------------------------------------
(* compute_player_mdp_metrics *)

WindowSizes == <<5, 10, 20, 30>>

WindowSet == Range(WindowSizes)

\* f'intensity_{window_size}s'
IntensityCol(w) == <<"intensity", w>>

\* f'{window_size}s'
WindowLabel(w) ==
    CASE w = 5 -> "5s" [] w = 10 -> "10s" [] w = 20 -> "20s" [] w = 30 -> "30s"

TimestampCol == <<"timestamp", 0>>

NoneDF == [none |-> TRUE]

\* a data frame: its row count and its columns, each a sequence of n cells
DataFrame(n, cols) == [none |-> FALSE, n |-> n, cols |-> cols]

\* len(df)
DfLen(df) == df.n

HasCol(df, c) == c \in DOMAIN df.cols

\* Series.max(): the largest non-missing cell, NaN when there is none (skipna)
SeriesMax(s) ==
    LET present == {s[i].v : i \in {j \in 1..Len(s) : notna(s[j])}}
    IN  IF present = {} THEN NaN ELSE Num(SetMax(present))

\* float(max_val) if pd.notna(max_val) else None
FloatOrNone(x) == IF notna(x) THEN Num(x.v) ELSE None

\* lines 102-109: one window's peak, None when the column is absent or all-missing
WindowPeak(df, w) ==
    IF HasCol(df, IntensityCol(w))
    THEN FloatOrNone(SeriesMax(df.cols[IntensityCol(w)]))
    ELSE None

\* the loop of lines 115-118 without its break: the last window holding the peak
PeakWindowNoBreak(mdp, peak) ==
    LET hits == {i \in 1..Len(WindowSizes) : mdp[WindowSizes[i]] = peak}
    IN  WindowLabel(WindowSizes[SetMax(hits)])

\* lines 115-118: the first window, in the order 5, 10, 20, 30, holding the peak
PeakWindow(mdp, peak) ==
    LET hits == {i \in 1..Len(WindowSizes) : mdp[WindowSizes[i]] = peak}
    IN  WindowLabel(WindowSizes[SetMin(hits)])

\* the coverage without the cap of line 130
CoverageUncapped(df) ==
    LET samples_available == DfLen(df)
    IN  IF HasCol(df, TimestampCol) /\ samples_available > 1
        THEN LET ts == Range(df.cols[TimestampCol])
                 ticks == SetMax(ts) - SetMin(ts)
                 pct == IF ticks <= TicksPerSecond
                        THEN Rat(samples_available * 100, 1)
                        ELSE Rat(samples_available * 100 * TicksPerSecond, ticks)
             IN  IF ticks > 0 THEN pct ELSE Rat(100, 1)
        ELSE IF samples_available > 0 THEN Rat(100, 1) ELSE Rat(0, 1)

\* lines 123-132: the data-coverage percentage, as a rational
Coverage(df) ==
    LET samples_available == DfLen(df)
    IN  IF HasCol(df, TimestampCol) /\ samples_available > 1
        THEN LET ts == Range(df.cols[TimestampCol])
                 ticks == SetMax(ts) - SetMin(ts)   \* total_seconds * TicksPerSecond
                 \* samples / max(1, total_seconds) * 100
                 pct == IF ticks <= TicksPerSecond
                        THEN Rat(samples_available * 100, 1)
                        ELSE Rat(samples_available * 100 * TicksPerSecond, ticks)
                 pct_coverage == IF ticks > 0 THEN pct ELSE Rat(100, 1)
             IN  IF RatLt(Rat(100, 1), pct_coverage) THEN Rat(100, 1) ELSE pct_coverage
        ELSE IF samples_available > 0 THEN Rat(100, 1) ELSE Rat(0, 1)

\* the empty record with the coverage of a non-empty frame
EmptyMetricsFullCoverage ==
    [mdp |-> [w \in WindowSet |-> None],
     mdp_peak_value |-> None,
     mdp_peak_window |-> "None",
     data_quality |-> [coverage |-> Rat(100, 1), samples |-> 0],
     has_peak_data |-> FALSE]

\* lines 92-98: the record returned for a missing or empty frame
EmptyMetrics ==
    [mdp |-> [w \in WindowSet |-> None],
     mdp_peak_value |-> None,
     mdp_peak_window |-> "None",
     data_quality |-> [coverage |-> Rat(0, 1), samples |-> 0],
     has_peak_data |-> FALSE]

\* the record with has_peak_data telling that the frame has rows
NonEmptyMetricsRowFlag(df) ==
    LET mdp == [w \in WindowSet |-> WindowPeak(df, w)]
        peak_values == {mdp[w].v : w \in {x \in WindowSet : mdp[x] # None}}
        peak == IF peak_values # {} THEN Num(SetMax(peak_values)) ELSE None
    IN  [mdp |-> mdp,
         mdp_peak_value |-> peak,
         mdp_peak_window |-> IF peak_values # {} THEN PeakWindow(mdp, peak) ELSE "None",
         data_quality |-> [coverage |-> Coverage(df), samples |-> DfLen(df)],
         has_peak_data |-> DfLen(df) > 0]

\* lines 100-137: the record of a frame that has rows
NonEmptyMetrics(df) ==
    LET mdp == [w \in WindowSet |-> WindowPeak(df, w)]
        peak_values == {mdp[w].v : w \in {x \in WindowSet : mdp[x] # None}}
        peak == IF peak_values # {} THEN Num(SetMax(peak_values)) ELSE None
    IN  [mdp |-> mdp,
         mdp_peak_value |-> peak,
         mdp_peak_window |-> IF peak_values # {} THEN PeakWindow(mdp, peak) ELSE "None",
         data_quality |-> [coverage |-> Coverage(df), samples |-> DfLen(df)],
         has_peak_data |-> \E w \in WindowSet : mdp[w] # None]

\* the computation giving up on every window as soon as one column is absent
ComputePlayerMdpMetricsAbort(df) ==
    IF df.none \/ DfLen(df) = 0
    THEN EmptyMetrics
    ELSE IF \E w \in WindowSet : ~HasCol(df, IntensityCol(w))
         THEN [EmptyMetrics EXCEPT
                  !.data_quality = [coverage |-> Coverage(df), samples |-> DfLen(df)]]
         ELSE NonEmptyMetrics(df)

\* a version that remembers it has been called (not the code)
ComputePlayerMdpMetricsOnce(df) ==
    IF df.none \/ DfLen(df) = 0 \/ calls > 0 THEN EmptyMetrics ELSE NonEmptyMetrics(df)

\* lines 74-137
ComputePlayerMdpMetrics(df) ==
    IF df.none \/ DfLen(df) = 0 THEN EmptyMetrics ELSE NonEmptyMetrics(df)

----------------------------------------------------------------------------
(* Inputs *)

Cells == {NaN} \cup {Num(v) : v \in IntensityVals}

\* a column of n equal cells
ConstCol(c, n) == [i \in 1..n |-> c]

\* stands for a column the frame does not have
Absent == <<[tag |-> "absent"]>>

\* columns of n rows: arbitrary cells for the window `free`, and for every other
\* window no column, or a column of equal cells
ColumnChoices(n, free) ==
    LET others == {IntensityCol(w) : w \in WindowSet \ {free}}
        plain == {ConstCol(c, n) : c \in Cells} \cup {Absent}
    IN  {(IntensityCol(free) :> s) @@ g :
            s \in SeqsOfLen(Cells, n) \cup {Absent}, g \in [others -> plain]}

\* the frame holding the columns of f that are not absent
FrameOf(n, f) ==
    DataFrame(n, [c \in {d \in DOMAIN f : f[d] # Absent} |-> f[c]])

\* frames without a timestamp column
PeakFrames ==
    UNION {
        UNION {{FrameOf(n, f) : f \in ColumnChoices(n, free)} : free \in WindowSet}
        : n \in 0..MaxRows}

\* non-decreasing timestamp columns of n rows
TimestampSeqs(n) ==
    {s \in SeqsOfLen(0..MaxTick, n) : \A i \in 1..(n - 1) : s[i] <= s[i + 1]}

\* frames with a timestamp column and at most the 10s intensity column
TimedFrames ==
    UNION {
        {DataFrame(n, (TimestampCol :> ts)) : ts \in TimestampSeqs(n)}
        \cup
        {DataFrame(n, (TimestampCol :> ts) @@ (IntensityCol(10) :> s)) :
            ts \in TimestampSeqs(n), s \in SeqsOfLen(Cells, n)}
        : n \in 0..MaxRows}

SessionFrames == {NoneDF} \cup PeakFrames \cup TimedFrames

----------------------------------------------------------------------------
(* render_mdp_summary *)

MpCol == <<"mp", 0>>

\* Series.dropna()
RECURSIVE dropna(_)
dropna(s) ==
    IF s = <<>> THEN <<>>
    ELSE IF notna(Head(s)) THEN <<Head(s)>> \o dropna(Tail(s)) ELSE dropna(Tail(s))

\* the sum of the w values of s that end at position i
RECURSIVE TrailingSum(_, _, _)
TrailingSum(s, i, w) == IF w = 0 THEN 0 ELSE s[i].v + TrailingSum(s, i - 1, w - 1)

\* compute_mdp(series, window_length) -> (peak_value, peak_position): the largest
\* mean of window_length consecutive non-missing samples and the earliest
\* position reaching it; (None, None) when no position has a full window
compute_mdp(series, window_length) ==
    LET s == dropna(series)
        full == window_length..Len(s)
        best == SetMax({TrailingSum(s, i, window_length) : i \in full})
        at == SetMin({i \in full : TrailingSum(s, i, window_length) = best})
    IN  IF full = {} THEN <<None, None>>
        ELSE <<Num(Rat(best, window_length)), Num(at)>>

\* a value together with the window length it was computed for
Of(val, w) == [val |-> val, window |-> w]

\* metrics_row.get(key): None when the row has no such key
RowGet(row, key) == IF key \in DOMAIN row.fields THEN row.fields[key] ELSE None

NoneRow == [none |-> TRUE]

Row(fields) == [none |-> FALSE, fields |-> fields]

\* format_mdp_display(mdp_val)
format_mdp_display(v) == <<"mdp", v>>

\* lines 447-452: without an mp column the tiles come from the coach-metrics row
FallbackValues(row) ==
    (5 :> Of(RowGet(row, "mdp10"), 10)) @@
    (10 :> Of(RowGet(row, "mdp10"), 10)) @@
    (20 :> Of(RowGet(row, "mdp20"), 20)) @@
    (30 :> Of(RowGet(row, "mdp30"), 30))

\* lines 441-445: with an mp column every window is computed by compute_mdp
ComputedValues(mp_series) ==
    [w \in WindowSet |-> Of(compute_mdp(mp_series, w)[1], w)]

\* a tile that formats whatever it is given (not the code)
TileAlwaysValue(w, v) ==
    [el |-> "metric", label |-> w, value |-> format_mdp_display(v.val), window |-> v.window]

\* lines 463-468: one tile per window, N/A for a missing value
Tile(w, v) ==
    [el |-> "metric", label |-> w,
     value |-> IF notna(v.val) THEN format_mdp_display(v.val) ELSE <<"N/A">>,
     window |-> v.window]

Tiles(values) == [i \in 1..Len(WindowSizes) |-> Tile(WindowSizes[i], values[WindowSizes[i]])]

Header == <<[el |-> "markdown", text |-> "MDP Summary"], [el |-> "caption", text |-> "peaks"]>>

NoMpInfo == [el |-> "info", text |-> "No MP data available for MDP computation."]

\* lines 470-473: len(df) / max(1, len(df)) is 1 for every rendered frame
SamplesCaption(df) == [el |-> "caption", text |-> <<"green", DfLen(df)>>]

\* the elements render_mdp_summary emits
RenderMdpSummary(df, row) ==
    IF df.none \/ DfLen(df) = 0 THEN <<>>
    ELSE IF HasCol(df, MpCol)
         THEN IF dropna(df.cols[MpCol]) = <<>>
              THEN Header \o <<NoMpInfo>>
              ELSE Header \o Tiles(ComputedValues(dropna(df.cols[MpCol])))
                     \o <<SamplesCaption(df)>>
         ELSE IF ~row.none
              THEN Header \o Tiles(FallbackValues(row)) \o <<SamplesCaption(df)>>
              ELSE Header \o <<NoMpInfo>>

MpCells == {NaN} \cup {Num(v) : v \in MpVals}

\* frames holding an mp column
MpFrames ==
    UNION {{DataFrame(n, (MpCol :> s)) : s \in SeqsOfLen(MpCells, n)} : n \in 0..MaxSamples}

\* coach-metrics rows: each of mdp10, mdp20, mdp30 absent, NaN or a number
MdpKeys == {"mdp10", "mdp20", "mdp30"}

MetricsRows ==
    UNION {{Row(f) : f \in [ks -> MpCells]} : ks \in SUBSET MdpKeys}

\* the arguments of render_mdp_summary: a frame with an mp column and any row
\* that does not matter, or a frame without one and any row
SummaryArgs ==
    (MpFrames \X {NoneRow, Row([k \in MdpKeys |-> Num(1)])})
    \cup (({NoneDF} \cup TimedFrames) \X ({NoneRow} \cup MetricsRows))

----------------------------------------------------------------------------
(* render_early_mid_late_trend *)

\* metrics_row.empty
RowEmpty(row) == DOMAIN row.fields = {}

\* a trend that counts a change of exactly 5% as a change
TrendLabelInclusive(trend_pct) ==
    IF RatLe(Rat(5, 1), trend_pct) THEN "Increasing"
    ELSE IF RatLe(trend_pct, Rat(-5, 1)) THEN "Decreasing"
    ELSE "Stable"

\* lines 337-345
TrendLabel(trend_pct) ==
    IF RatLt(Rat(5, 1), trend_pct) THEN "Increasing"
    ELSE IF RatLt(trend_pct, Rat(-5, 1)) THEN "Decreasing"
    ELSE "Stable"

\* lines 310-326: one tile per third of the session
ThirdTile(label, v) ==
    [el |-> "metric", label |-> label,
     value |-> IF notna(v) THEN <<"W/kg", v>> ELSE <<"N/A">>]

NoTrend == [computed |-> FALSE]

\* lines 279-349: the dict returned and the elements emitted
RenderEarlyMidLateTrend(row) ==
    IF row.none \/ RowEmpty(row) THEN [trend_data |-> NoTrend, st |-> <<>>]
    ELSE LET early_mp == RowGet(row, "early_mp")
             mid_mp == RowGet(row, "mid_mp")
             late_mp == RowGet(row, "late_mp")
             tiles == << [el |-> "markdown", text |-> "Intensity Trend"],
                         ThirdTile("Early", early_mp),
                         ThirdTile("Mid", mid_mp),
                         ThirdTile("Late", late_mp) >>
         IN  IF isna(early_mp) /\ isna(mid_mp) /\ isna(late_mp)
             THEN [trend_data |-> NoTrend, st |-> <<>>]
             ELSE IF notna(early_mp) /\ notna(late_mp) /\ early_mp.v > 0
             THEN LET trend_change == late_mp.v - early_mp.v
                      trend_pct == Rat(trend_change * 100, early_mp.v)
                  IN  [trend_data |-> [computed |-> TRUE,
                                       trend_change |-> trend_change,
                                       trend_pct |-> trend_pct],
                       st |-> tiles \o << [el |-> "caption",
                                           text |-> TrendLabel(trend_pct),
                                           pct |-> trend_pct] >>]
             ELSE [trend_data |-> NoTrend, st |-> tiles]

MpAverages == {NaN} \cup {Num(v) : v \in 0..MaxMp}

\* coach-metrics rows for the trend: early_mp and late_mp absent, NaN or a
\* number, mid_mp absent, NaN or one number
TrendRows ==
    {NoneRow, Row(<<>>)} \cup
    UNION {{Row(f) : f \in {g \in [ks -> MpAverages] :
                                "mid_mp" \in ks => g["mid_mp"] \in {NaN, Num(1)}}}
           : ks \in SUBSET {"early_mp", "mid_mp", "late_mp"}}

----------------------------------------------------------------------------
(* classify_intensity_from_percentile: percentiles in thousandths of a point *)

\* a classification whose boundaries belong to the lower category
ClassifyUpperClosed(p) ==
    IF isna(p) THEN "Unknown"
    ELSE IF p.v <= 25000 THEN "Easy"
    ELSE IF p.v <= 60000 THEN "Medium"
    ELSE IF p.v <= 85000 THEN "Hard"
    ELSE "Very Hard"

\* < 25 Easy, 25 <= p < 60 Medium, 60 <= p < 85 Hard, >= 85 Very Hard
classify_intensity_from_percentile(p) ==
    IF isna(p) THEN "Unknown"
    ELSE IF p.v < 25000 THEN "Easy"
    ELSE IF p.v < 60000 THEN "Medium"
    ELSE IF p.v < 85000 THEN "Hard"
    ELSE "Very Hard"

\* every whole percentile of [0, 100] and its neighbours one thousandth away
Percentiles ==
    {NaN} \cup {Num(p) : p \in {q \in 0..100000 : q % 1000 \in {0, 1, 999}}}

----------------------------------------------------------------------------
(* The Player Analysis page: one run of the script, top to bottom *)

Bool(b) == [tag |-> "bool", v |-> b]

Str(x) == [tag |-> "str", v |-> x]

Frame(d) == [tag |-> "df", v |-> d]

Signals == {"speed", "acc", "hr", "mp"}

PlayerIds == <<"p1", "p2">>

AllPlayers == "All Players (Average)"

\* a raw dataset: its signal columns, whether it has a 'date' column, and for
\* each session date, in date order, the players that have rows on it
Dataset(signals, has_date, sessions) ==
    [signals |-> signals, has_date |-> has_date, sessions |-> sessions, intensity |-> FALSE,
     weights |-> <<>>]

PlayerSets == SUBSET Range(PlayerIds) \ {{}}

SessionLists == UNION {SeqsOfLen(PlayerSets, n) : n \in 0..MaxDates}

\* the datasets the Home page can load: any signal columns over at most one
\* session, or any sessions with all four or only two signal columns
Datasets ==
    {Dataset(sg, hd, ss) : sg \in SUBSET Signals, hd \in BOOLEAN,
                           ss \in {<<>>, <<{"p1"}>>}}
    \cup
    {Dataset(sg, hd, ss) : sg \in {Signals, {"speed", "acc"}}, hd \in BOOLEAN,
                           ss \in SessionLists}

\* session_state before any page has run
FreshSessionState ==
    [data_loaded |-> Unset, raw_df |-> Unset, hr_df |-> Unset, weights |-> Unset,
     selected_session_idx |-> Unset, viz_player |-> Unset,
     player_session_select |-> Unset, player_select |-> Unset,
     viz_windows |-> Unset, player_window_select |-> Unset,
     player_view_mode |-> Unset, player_view_mode_radio |-> Unset]

\* 'key' in st.session_state
InState(ss, key) == ss[key] # Unset

\* line 539
DefaultWeights == Str("power_W 0.5, heart_rate_bpm 0.3, cadence_rpm 0.2")

NoRun ==
    [raw_df |-> Unset, session_data |-> Unset, session_dates |-> <<>>,
     selected_session_idx |-> Unset, selected_date |-> Unset,
     player_options |-> <<>>, selected_player_display |-> Unset,
     selected_player_id |-> Unset, replaced_player |-> Unset,
     window_options |-> Unset, player_view_mode |-> Unset, metrics_df |-> Unset,
     metrics_row |-> Unset]

NoError == [exc |-> "none", line |-> 0]

Raised(exc, line) == [exc |-> exc, line |-> line]

\* lines 533-539: the keys the page creates when they are missing
InitSessionState(ss) ==
    LET a == IF InState(ss, "data_loaded") THEN ss
             ELSE [ss EXCEPT !.data_loaded = Bool(FALSE), !.raw_df = None, !.hr_df = None]
    IN  IF InState(a, "weights") THEN a ELSE [a EXCEPT !.weights = DefaultWeights]

\* a guard that tests only that the keys exist
NotLoadedKeys(ss) == ~InState(ss, "data_loaded") \/ ~InState(ss, "raw_df")

\* line 541: not st.session_state.get('data_loaded', False) or raw_df is None
NotLoaded(ss) == ss.data_loaded # Bool(TRUE) \/ ss.raw_df.tag # "df"

\* line 553
AvailableCols(raw) == raw.signals

\* the weights given, in percent, summed over the signals there are
WeightTotal(available, w) ==
    (IF "speed" \in available THEN w.speed ELSE 0) + (IF "acc" \in available THEN w.acc ELSE 0)
    + (IF "hr" \in available THEN w.hr ELSE 0) + (IF "mp" \in available THEN w.mp ELSE 0)

\* the weights given kept as they are, the missing signal counting as zero
ZeroFilledWeights(available, w) ==
    [s \in available |-> Rat(w[s], WeightTotal(Signals, w))]

\* the weights of the signals there are, rescaled in proportion to sum to 1
RenormalizedWeights(available, w) ==
    [s \in available |-> Rat(w[s], WeightTotal(available, w))]

\* lines 557-560: w_speed=0.25, w_acc=0.25, w_hr=0.25, w_mp=0.25
PageSignalWeights == [speed |-> 25, acc |-> 25, hr |-> 25, mp |-> 25]

\* calculate_intensity_and_windows: the frame with its intensity columns added,
\* the intensity being the weighted sum of the normalised signals in columns_to_plot
calculate_intensity_and_windows(raw, w, columns_to_plot) ==
    [raw EXCEPT !.intensity = TRUE, !.weights = RenormalizedWeights(columns_to_plot, w)]

LoadWarning == [el |-> "warning", text |-> "Please load data on the Home page first."]

RawDataWarning ==
    [el |-> "warning", text |-> "Not all intensity columns available. Using raw data directly."]

\* st.selectbox(options, index, key): None without options, an exception for an
\* index outside the options, else the widget's stored choice, or the option
\* at index (nothing for index=None) when nothing valid is stored
SelectboxRaises(n_options, index) ==
    n_options > 0 /\ notna(index) /\ ~(0 <= index.v /\ index.v < n_options)

Selectbox(n_options, index, stored) ==
    IF n_options = 0 THEN None
    ELSE IF notna(stored) /\ stored.v < n_options THEN stored ELSE index

\* position of x in the sequence s, 0 when absent
IndexOf(s, x) == IF x \in Range(s) THEN SetMin({i \in 1..Len(s) : s[i] = x}) ELSE 0

\* lines 604: "All Players (Average)" followed by the sorted player ids
PlayerOptions(players) ==
    LET keep == {i \in 1..Len(PlayerIds) : PlayerIds[i] \in players}
        RECURSIVE Pick(_)
        Pick(i) == IF i > Len(PlayerIds) THEN <<>>
                   ELSE IF i \in keep THEN <<PlayerIds[i]>> \o Pick(i + 1) ELSE Pick(i + 1)
    IN  <<AllPlayers>> \o Pick(1)

\* the Home page stores a dataset
HomeLoad ==
    /\ page = "idle"
    /\ \E d \in Datasets :
        session_state' = [session_state EXCEPT !.data_loaded = Bool(TRUE),
                                               !.raw_df = Frame(d), !.hr_df = None]
    /\ UNCHANGED <<filterVars, helperVars, scoreVars, calls, st, page, run, error>>

\* the user picks another session in the selector the page has shown
UserPicksSession ==
    /\ page = "idle"
    /\ InState(session_state, "player_session_select")
    /\ session_state.raw_df.tag = "df"
    /\ \E i \in 0..(Len(session_state.raw_df.v.sessions) - 1) :
        session_state' = [session_state EXCEPT !.player_session_select = Num(i)]
    /\ UNCHANGED <<filterVars, helperVars, scoreVars, calls, st, page, run, error>>

\* the user picks another player in the selector the page has shown
UserPicksPlayer ==
    /\ page = "idle"
    /\ InState(session_state, "player_select")
    /\ \E o \in {AllPlayers} \cup Range(PlayerIds) :
        session_state' = [session_state EXCEPT !.player_select = Str(o)]
    /\ UNCHANGED <<filterVars, helperVars, scoreVars, calls, st, page, run, error>>

\* Streamlit starts a run of the script; lines 533-543
PageStart ==
    /\ page = "idle"
    /\ LET ss == InitSessionState(session_state)
       IN  /\ session_state' = ss
           /\ IF NotLoaded(ss)
              THEN /\ st' = <<LoadWarning>>
                   /\ page' = "stopped"
                   /\ run' = NoRun
              ELSE /\ st' = <<>>
                   /\ page' = "intensity"
                   /\ run' = [NoRun EXCEPT !.raw_df = ss.raw_df]
    /\ error' = NoError
    /\ UNCHANGED <<filterVars, helperVars, scoreVars, calls>>

\* lines 549-567
PageIntensity ==
    /\ page = "intensity"
    /\ IF Cardinality(AvailableCols(run.raw_df.v)) >= 3
       THEN /\ run' = [run EXCEPT !.session_data =
                            Frame(calculate_intensity_and_windows(
                                      run.raw_df.v, PageSignalWeights,
                                      AvailableCols(run.raw_df.v)))]
            /\ st' = st
       ELSE /\ run' = [run EXCEPT !.session_data = run.raw_df]
            /\ st' = Append(st, RawDataWarning)
    /\ page' = "dates"
    /\ UNCHANGED <<filterVars, helperVars, scoreVars, calls, session_state, error>>

\* lines 569-570
PageDates ==
    /\ page = "dates"
    /\ IF run.session_data.v.has_date
       THEN /\ run' = [run EXCEPT !.session_dates =
                            [i \in 1..Len(run.session_data.v.sessions) |-> i]]
            /\ page' = "session_select"
            /\ error' = error
       ELSE /\ run' = run
            /\ page' = "failed"
            /\ error' = Raised("KeyError", 569)
    /\ UNCHANGED <<filterVars, helperVars, scoreVars, calls, session_state, st>>

\* lines 579-594
PageSessionSelect ==
    /\ page = "session_select"
    /\ LET n == Len(run.session_dates)
           default_session_idx == IF n > 0 THEN n - 1 ELSE 0
           ss1 == IF InState(session_state, "selected_session_idx") THEN session_state
                  ELSE [session_state EXCEPT !.selected_session_idx = Num(default_session_idx)]
           index == ss1.selected_session_idx
           chosen == Selectbox(n, index, ss1.player_session_select)
       IN  IF SelectboxRaises(n, index)
           THEN /\ session_state' = ss1
                /\ run' = run
                /\ page' = "failed"
                /\ error' = Raised("StreamlitAPIException", 586)
           ELSE /\ session_state' = [ss1 EXCEPT !.selected_session_idx = chosen,
                                                 !.player_session_select = chosen]
                /\ IF chosen = None
                   THEN /\ run' = [run EXCEPT !.selected_session_idx = chosen]
                        /\ page' = "failed"
                        /\ error' = Raised("TypeError", 591)
                   ELSE /\ run' = [run EXCEPT
                                !.selected_session_idx = chosen,
                                !.selected_date = Num(run.session_dates[chosen.v + 1]),
                                !.session_data = Frame([run.session_data.v EXCEPT !.sessions =
                                                    <<run.session_data.v.sessions[chosen.v + 1]>>])]
                        /\ page' = "player_select"
                        /\ error' = error
    /\ UNCHANGED <<filterVars, helperVars, scoreVars, calls, st>>

\* a selectbox that returns the value its key holds, whatever the options are
PlayerSelectboxKept(player_options, index, widget) ==
    IF widget.tag = "str" THEN widget.v ELSE player_options[index + 1]

\* line 616: st.selectbox("Player:", player_options, index, key='player_select')
\* returns the choice the widget holds while it is one of the options, and the
\* option at index otherwise
PlayerSelectbox(player_options, index, widget) ==
    LET stored == IF widget.tag = "str" THEN IndexOf(player_options, widget.v) ELSE 0
    IN  IF stored > 0 THEN player_options[stored] ELSE player_options[index + 1]

\* lines 597-618
PagePlayerSelect ==
    /\ page = "player_select"
    /\ LET player_options == PlayerOptions(run.session_data.v.sessions[1])
           ss1 == IF InState(session_state, "viz_player") THEN session_state
                  ELSE [session_state EXCEPT !.viz_player = Str(player_options[1])]
           found == IndexOf(player_options, ss1.viz_player.v)
           current_player_idx == IF found > 0 THEN found - 1 ELSE 0
           ss2 == IF found > 0 THEN ss1 ELSE [ss1 EXCEPT !.viz_player = Str(player_options[1])]
           selected_player_display ==
               PlayerSelectbox(player_options, current_player_idx, ss2.player_select)
       IN  /\ session_state' = [ss2 EXCEPT !.viz_player = Str(selected_player_display),
                                            !.player_select = Str(selected_player_display)]
           /\ run' = [run EXCEPT
                    !.player_options = player_options,
                    !.selected_player_display = Str(selected_player_display),
                    !.replaced_player = IF found > 0 THEN None ELSE ss1.viz_player,
                    !.selected_player_id = IF selected_player_display = AllPlayers THEN None
                                           ELSE Str(selected_player_display)]
    /\ page' = "selected"
    /\ UNCHANGED <<filterVars, helperVars, scoreVars, calls, st, error>>

----------------------------------------------------------------------------
(* Session intensity scoring: build_session_intensity_df and its cached wrapper *)

RatAdd(a, b) == Rat(a.num * b.den + b.num * a.den, a.den * b.den)

RatScale(k, a) == Rat(k * a.num, a.den)

\* the largest s with s * s dividing v
SquarePart(v) == SetMax({s \in 1..v : v % (s * s) = 0})

RECURSIVE SumOver(_, _)
SumOver(f, S) ==
    IF S = {} THEN 0 ELSE LET x == CHOOSE y \in S : TRUE IN f[x] + SumOver(f, S \ {x})

\* IntensityWeights, in percent
IntensityWeights(w_explosiveness, w_repeatability, w_volume) ==
    [w_explosiveness |-> w_explosiveness, w_repeatability |-> w_repeatability,
     w_volume |-> w_volume]

\* an argument the caller leaves out
Missing == [tag |-> "missing"]

Balanced == IntensityWeights(30, 50, 20)

SpeedEmphasis == IntensityWeights(50, 30, 20)

Conditioning == IntensityWeights(20, 40, 40)

Presets == {Balanced, SpeedEmphasis, Conditioning}

\* what one player-session of raw samples amounts to: its peak 10s, 20s and
\* 30s metabolic power and its accumulated load
Features(mdp_10, mdp_20, mdp_30, total_mp_load) ==
    [mdp_10 |-> mdp_10, mdp_20 |-> mdp_20, mdp_30 |-> mdp_30, total_mp_load |-> total_mp_load]

SessionKinds ==
    {Features(1, 1, 1, 1), Features(2, 1, 1, 1), Features(1, 1, 1, 2), Features(2, 2, 2, 2)}

RawRows == {[session_id |-> sid, load |-> k] : sid \in {1, 2}, k \in SessionKinds}

\* a z-score coef * sqrt(rad), rad squarefree
Z(coef, rad) == [coef |-> coef, rad |-> rad]

ZeroZ == Z(Rat(0, 1), 1)

\* (x - mean) / stddev without a guard: 0 / 0 is NaN at zero spread
ZScoreUnguarded(x, vals, group) ==
    LET n == Cardinality(group)
        S == SumOver(vals, group)
        Q == SumOver([i \in group |-> vals[i] * vals[i]], group)
        V == n * Q - S * S
        d == n * x - S
        s == SquarePart(V)
        r == V \div (s * s)
    IN  IF V = 0 THEN Z(NaN, 1) ELSE IF d = 0 THEN ZeroZ ELSE Z(Rat(d, s * r), r)

\* (x - mean) / stddev of x within the values vals[i], i in group; 0 at zero spread
ZScore(x, vals, group) ==
    LET n == Cardinality(group)
        S == SumOver(vals, group)
        Q == SumOver([i \in group |-> vals[i] * vals[i]], group)
        V == n * Q - S * S
        d == n * x - S
        s == SquarePart(V)
        r == V \div (s * s)
    IN  IF V = 0 \/ d = 0 THEN ZeroZ ELSE Z(Rat(d, s * r), r)

\* w_explosiveness * explosiveness_z + w_repeatability * repeatability_z
\* + w_volume * volume_z, as its coefficient for each radical
WeightedSum(weights, explosiveness_z, repeatability_z, volume_z) ==
    LET terms == {<<1, weights.w_explosiveness, explosiveness_z>>,
                  <<2, weights.w_repeatability, repeatability_z>>,
                  <<3, weights.w_volume, volume_z>>}
        coefOf(rad) ==
            LET e == IF explosiveness_z.rad = rad
                     THEN RatScale(weights.w_explosiveness, explosiveness_z.coef) ELSE Rat(0, 1)
                r == IF repeatability_z.rad = rad
                     THEN RatScale(weights.w_repeatability, repeatability_z.coef) ELSE Rat(0, 1)
                v == IF volume_z.rad = rad
                     THEN RatScale(weights.w_volume, volume_z.coef) ELSE Rat(0, 1)
                sum == RatAdd(e, RatAdd(r, v))
            IN  Rat(sum.num, sum.den * 100)
    IN  {[rad |-> t[3].rad, coef |-> coefOf(t[3].rad)] : t \in terms} \
            {[rad |-> t[3].rad, coef |-> Rat(0, 1)] : t \in terms}

\* a weighted sum with a NaN term is NaN
NaNIndex == {[rad |-> 1, coef |-> NaN]}

\* rows of the same session: the team a row is compared with
Team(raw, i) == {j \in 1..Len(raw) : raw[j].session_id = raw[i].session_id}

\* the weights the scorer uses when its caller passes none
DefaultIntensityWeights == Balanced

\* build_session_intensity_df(raw, weights): one record per player-session
build_session_intensity_df(raw, weights) ==
    LET w == IF weights = Missing THEN DefaultIntensityWeights ELSE weights
        explosiveness == [i \in 1..Len(raw) |-> raw[i].load.mdp_10]
        \* twice the average of the 20s and 30s peaks: z-scores do not depend on the scale
        repeatability == [i \in 1..Len(raw) |-> raw[i].load.mdp_20 + raw[i].load.mdp_30]
        volume == [i \in 1..Len(raw) |-> raw[i].load.total_mp_load]
        row(i) ==
            LET ze == ZScore(explosiveness[i], explosiveness, Team(raw, i))
                zr == ZScore(repeatability[i], repeatability, Team(raw, i))
                zv == ZScore(volume[i], volume, Team(raw, i))
            IN  [player_id |-> i, session_id |-> raw[i].session_id,
                 mdp_10 |-> raw[i].load.mdp_10, mdp_20 |-> raw[i].load.mdp_20,
                 mdp_30 |-> raw[i].load.mdp_30, total_mp_load |-> raw[i].load.total_mp_load,
                 explosiveness_z |-> ze, repeatability_z |-> zr, volume_z |-> zv,
                 session_intensity_index |->
                     IF \E z \in {ze, zr, zv} : z.coef = NaN THEN NaNIndex
                     ELSE WeightedSum(w, ze, zr, zv)]
    IN  [i \in 1..Len(raw) |-> row(i)]

RawPath == "full_players_df.csv"

\* lines 31-34: the wrapper's own defaults
WrapperDefaults == Balanced

\* the wrapper passing its second weight as the first (not the code)
WrapperWeightsSwapped(args) ==
    LET a == IF args.weights = Missing THEN WrapperDefaults ELSE args.weights
    IN  IntensityWeights(a.w_repeatability, a.w_explosiveness, a.w_volume)

\* the wrapper passing its defaults whatever it is given (not the code)
WrapperWeightsIgnored(args) ==
    IntensityWeights(WrapperDefaults.w_explosiveness, WrapperDefaults.w_repeatability,
                     WrapperDefaults.w_volume)

\* lines 40-44: weights = IntensityWeights(w_explosiveness=..., ...)
WrapperWeights(args) ==
    LET a == IF args.weights = Missing THEN WrapperDefaults ELSE args.weights
    IN  IntensityWeights(a.w_explosiveness, a.w_repeatability, a.w_volume)

\* st.cache_data: the stored value for a key, else the computed one
Cached(cache, key, value) == IF key \in DOMAIN cache THEN cache[key] ELSE value

Store(cache, key, value) ==
    [k \in DOMAIN cache \cup {key} |-> IF k \in DOMAIN cache THEN cache[k] ELSE value]

NoCall == [fn |-> "none"]

ScoreCall(fn, args, weights_from) == [fn |-> fn, args |-> args, weights_from |-> weights_from]

WrapperArgs == {[raw_path |-> RawPath, weights |-> w] : w \in Presets \cup {Missing}}

\* new player-sessions are recorded into the raw data file
AppendRow ==
    /\ score_call = NoCall
    /\ Len(files) < MaxScoreRows
    /\ \E r \in RawRows : files' = Append(files, r)
    /\ UNCHANGED <<filterVars, helperVars, pageVars, st, load_cache, intensity_cache, score_call,
                   session_df, results, calls>>

\* lines 29-46 under st.cache_data, with load_raw_data (lines 23-26) inside
GetSessionIntensityDf(args) ==
    LET hit == args \in DOMAIN intensity_cache
        raw == IF load_cache = Unset THEN files ELSE load_cache.v
        value == build_session_intensity_df(raw, WrapperWeights(args))
    IN  /\ load_cache' = IF hit THEN load_cache ELSE Frame(raw)
        /\ intensity_cache' = IF hit THEN intensity_cache
                              ELSE Store(intensity_cache, args, value)
        /\ session_df' = Frame(Cached(intensity_cache, args, value))
        /\ score_call' = ScoreCall("get_session_intensity_df", args,
                                   IF args.weights = Missing THEN "wrapper default"
                                   ELSE "caller")
        /\ UNCHANGED <<filterVars, helperVars, pageVars, st, files, results>>

\* get_session_intensity_df(raw_path[, w_explosiveness, w_repeatability, w_volume])
CallGetSessionIntensityDf ==
    /\ score_call = NoCall
    /\ \E args \in WrapperArgs : GetSessionIntensityDf(args)
    /\ calls' = 1

\* df_raw = pd.read_csv(raw_path); build_session_intensity_df(df_raw[, weights=weights])
BuildSessionIntensityDf(weights) ==
    /\ session_df' = Frame(build_session_intensity_df(files, weights))
    /\ score_call' = ScoreCall("build_session_intensity_df",
                               [raw_path |-> RawPath, weights |-> weights],
                               IF weights = Missing THEN "scorer default" ELSE "caller")
    /\ UNCHANGED <<filterVars, helperVars, pageVars, st, files, load_cache, intensity_cache, results>>

CallBuildSessionIntensityDf ==
    /\ score_call = NoCall
    /\ \E weights \in Presets \cup {Missing} : BuildSessionIntensityDf(weights)
    /\ calls' = 1

\* the preset scripts: one build_session_intensity_df(df_raw, weights=weights)
\* per preset on the same df_raw
RunPresetLoop ==
    /\ score_call = NoCall
    /\ results' = [w \in Presets |-> build_session_intensity_df(files, w)]
    /\ score_call' = ScoreCall("build_session_intensity_df",
                               [raw_path |-> RawPath, weights |-> Presets], "caller")
    /\ calls' = 1
    /\ UNCHANGED <<filterVars, helperVars, pageVars, st, files, load_cache, intensity_cache, session_df>>

\* the same caller makes the same call again
RepeatScoreCall ==
    /\ session_df # Unset
    /\ calls = 1
    /\ IF score_call.fn = "get_session_intensity_df"
       THEN GetSessionIntensityDf(score_call.args)
       ELSE BuildSessionIntensityDf(score_call.args.weights)
    /\ calls' = 2

\* the caller is done with the frame it got
ReturnScore ==
    /\ score_call # NoCall
    /\ score_call' = NoCall
    /\ session_df' = Unset
    /\ results' = <<>>
    /\ calls' = 0
    /\ UNCHANGED <<filterVars, helperVars, pageVars, st, files, load_cache, intensity_cache>>

NextScore ==
    \/ AppendRow
    \/ CallGetSessionIntensityDf
    \/ CallBuildSessionIntensityDf
    \/ RunPresetLoop
    \/ RepeatScoreCall
    \/ ReturnScore

----------------------------------------------------------------------------
(* Team normalisation, render_session_snapshot and render_team_comparison *)

\* the share, in percent, of the team (self included) with a value <= x
PercentileRank(x, values) ==
    Rat(100 * Cardinality({j \in DOMAIN values : values[j] <= x}), Len(values))

\* the same with ties sharing their average rank
PercentileRankAverage(x, values) ==
    LET less == Cardinality({j \in DOMAIN values : values[j] < x})
        equal == Cardinality({j \in DOMAIN values : values[j] = x})
    IN  Rat(100 * (2 * less + equal + 1), 2 * Len(values))

\* the z-score within the team: None for a team of one, 0 at zero spread
TeamZScore(x, values) ==
    IF Len(values) = 1 THEN None ELSE Num(ZScore(x, values, DOMAIN values))

\* int(x) of a non-negative float
IntOf(r) == r.num \div r.den

\* ordinal_suffix(n): "1st", "2nd", "3rd", "4th", "11th", ...
ordinal_suffix(n) ==
    <<n, IF (n % 100) \in 11..13 THEN "th"
         ELSE CASE n % 10 = 1 -> "st" [] n % 10 = 2 -> "nd" [] n % 10 = 3 -> "rd"
                [] OTHER -> "th">>

\* format_percentile(p)
format_percentile(p) == <<"percentile", ordinal_suffix(IntOf(p))>>

\* format_z_score(z)
format_z_score(z) == <<"z", z>>

\* the coach-metrics row of player i of a team with the given intensity scores
NormalizedRow(values, i, method) ==
    LET pct == IF method = "average" THEN PercentileRankAverage(values[i], values)
               ELSE PercentileRank(values[i], values)
    IN  Row([intensity_score |-> Num(values[i]),
             intensity_percentile |-> Num(pct),
             intensity_category |->
                 Str(classify_intensity_from_percentile(Num((pct.num * 1000) \div pct.den))),
             z_intensity |-> TeamZScore(values[i], values),
             peak10_percentile |-> Num(pct),
             total_load_percentile |-> NaN])

SnapshotHeader(selected_player_display) ==
    <<[el |-> "markdown", text |-> "Session Snapshot"],
      [el |-> "caption", text |-> <<"Performance metrics for", selected_player_display>>]>>

NoMetricsInfo == [el |-> "info", text |-> "No metrics available for selected player-session."]

\* a tile showing a value, N/A when it is missing
ValueTile(label, v, shown) ==
    [el |-> "metric", label |-> label, value |-> IF notna(v) THEN shown ELSE <<"N/A">>]

\* a z-score caption whatever the z-score (not the code)
ZScoreCaptionAlways(row) ==
    <<[el |-> "caption", z_score |-> format_z_score(RowGet(row, "z_intensity"))]>>

\* lines 215-216: the z-score caption, only for a z-score that is there
ZScoreCaption(row) ==
    IF notna(RowGet(row, "z_intensity"))
    THEN <<[el |-> "caption", z_score |-> format_z_score(RowGet(row, "z_intensity").v)]>>
    ELSE <<>>

\* lines 217-218
BaselineCaption(row) ==
    IF notna(RowGet(row, "baseline_28d_intensity"))
    THEN <<[el |-> "caption", baseline |-> RowGet(row, "baseline_28d_intensity").v]>>
    ELSE <<>>

\* lines 144-218: the elements render_session_snapshot emits
RenderSessionSnapshot(row, selected_player_display) ==
    IF row.none \/ RowEmpty(row) \/ isna(RowGet(row, "intensity_score"))
       \/ RowGet(row, "intensity_score") = None
    THEN SnapshotHeader(selected_player_display) \o <<NoMetricsInfo>>
    ELSE LET intensity_percentile == RowGet(row, "intensity_percentile")
             intensity_category == RowGet(row, "intensity_category")
         IN  SnapshotHeader(selected_player_display) \o
             <<IF notna(intensity_percentile)
               THEN [el |-> "metric", label |-> "Intensity",
                     value |-> format_percentile(intensity_percentile.v),
                     delta |-> IF intensity_category \in {None, Str("Unknown")} THEN None
                               ELSE intensity_category]
               ELSE [el |-> "metric", label |-> "Intensity", value |-> <<"N/A">>],
               ValueTile("Peak 10s (W/kg)", RowGet(row, "mdp10"), <<"1f", RowGet(row, "mdp10")>>),
               ValueTile("Peak 20s (W/kg)", RowGet(row, "mdp20"), <<"1f", RowGet(row, "mdp20")>>),
               ValueTile("Peak 30s (W/kg)", RowGet(row, "mdp30"), <<"1f", RowGet(row, "mdp30")>>),
               ValueTile("Total Load (AU)", RowGet(row, "total_load"),
                         <<"0f", RowGet(row, "total_load")>>)>>
             \o ZScoreCaption(row) \o BaselineCaption(row)

ComparisonHeader ==
    <<[el |-> "markdown", text |-> "Team Comparison"],
      [el |-> "caption", text |-> "percentile rank relative to teammates"]>>

NoTeamInfo == [el |-> "info", text |-> "No team data available."]

NoPercentiles == [intensity_pct |-> None, peak10_pct |-> None, total_load_pct |-> None]

\* lines 255-274: one percentile tile
PercentileTile(label, p) ==
    [el |-> "metric", label |-> label,
     value |-> IF notna(p) THEN ordinal_suffix(IntOf(p.v)) ELSE <<"N/A">>]

\* lines 221-276: the dict returned and the elements emitted
RenderTeamComparison(row) ==
    IF row.none \/ RowEmpty(row)
    THEN [percentiles |-> NoPercentiles, st |-> ComparisonHeader \o <<NoTeamInfo>>]
    ELSE LET intensity_pct == RowGet(row, "intensity_percentile")
             peak10_pct == RowGet(row, "peak10_percentile")
             total_load_pct == RowGet(row, "total_load_percentile")
             kept(p) == IF notna(p) THEN p ELSE None
         IN  [percentiles |-> [intensity_pct |-> kept(intensity_pct),
                               peak10_pct |-> kept(peak10_pct),
                               total_load_pct |-> kept(total_load_pct)],
              st |-> ComparisonHeader \o
                     <<PercentileTile("Intensity Percentile", intensity_pct),
                       PercentileTile("Peak 10s Percentile", peak10_pct),
                       PercentileTile("Total Load Percentile", total_load_pct)>>]

ScoreVals == {1, 2, 3}

\* a team's intensity scores, the player looked at, and the tie convention
Teams ==
    UNION {{[values |-> v, i |-> i, method |-> m] :
               v \in SeqsOfLen(ScoreVals, n), i \in 1..n, m \in {"share", "average"}}
           : n \in 1..MaxTeam}

\* rows without a team behind them: none, empty, or with missing percentiles
BareRows ==
    {NoneRow, Row(<<>>),
     Row([intensity_score |-> NaN]),
     Row([intensity_score |-> Num(1), intensity_percentile |-> NaN, z_intensity |-> NaN]),
     Row([intensity_score |-> Num(1), intensity_percentile |-> Num(Rat(50, 1)),
          intensity_category |-> Str("Unknown")])}

----------------------------------------------------------------------------
(* render_coach_insights and the insight rules *)

\* the percentile rule: a statement of the session's category
PercentileInsight(row) ==
    LET p == RowGet(row, "intensity_percentile")
    IN  IF notna(p)
        THEN <<<<"intensity",
                 classify_intensity_from_percentile(Num((p.v.num * 1000) \div p.v.den))>>>>
        ELSE <<>>

\* the z-score rule: a statement when the player is a standard deviation away
ZScoreInsight(row) ==
    LET z == RowGet(row, "z_intensity")
        \* |coef * sqrt(rad)| >= 1
        far == z.v.coef.num * z.v.coef.num * z.v.rad >= z.v.coef.den * z.v.coef.den
    IN  IF notna(z) /\ far /\ z.v.coef.num > 0 THEN <<<<"team", "above">>>>
        ELSE IF notna(z) /\ far /\ z.v.coef.num < 0 THEN <<<<"team", "below">>>>
        ELSE <<>>

\* the trend rule: the change from the first to the last third
TrendInsight(row) ==
    LET early_mp == RowGet(row, "early_mp")
        late_mp == RowGet(row, "late_mp")
    IN  IF notna(early_mp) /\ notna(late_mp) /\ early_mp.v > 0
        THEN <<<<"trend", TrendLabel(Rat((late_mp.v - early_mp.v) * 100, early_mp.v))>>>>
        ELSE <<>>

\* generate_coach_insights(metrics_row): the statements of the rules, in a fixed order
generate_coach_insights(row) ==
    PercentileInsight(row) \o ZScoreInsight(row) \o TrendInsight(row)

InsightsHeader == <<[el |-> "markdown", text |-> "Coach's Insights"]>>

InsufficientInfo == [el |-> "info", text |-> "Insufficient data for insights."]

NoInsightsCaption ==
    [el |-> "caption", text |-> "No actionable insights available for this session."]

\* the same without the check of lines 368-370: the rules are applied to None
RenderCoachInsightsUnchecked(row) ==
    IF row.none THEN InsightsHeader \o <<[el |-> "exception", exc |-> "AttributeError"]>>
    ELSE LET insights == generate_coach_insights(row)
         IN  InsightsHeader \o
             (IF insights # <<>>
              THEN [i \in 1..Len(insights) |-> [el |-> "info", insight |-> insights[i]]]
              ELSE <<NoInsightsCaption>>)

\* lines 352-379: the elements render_coach_insights emits
RenderCoachInsights(row) ==
    IF row.none \/ RowEmpty(row) THEN InsightsHeader \o <<InsufficientInfo>>
    ELSE LET insights == generate_coach_insights(row)
         IN  InsightsHeader \o
             (IF insights # <<>>
              THEN [i \in 1..Len(insights) |-> [el |-> "info", insight |-> insights[i]]]
              ELSE <<NoInsightsCaption>>)

\* the values each input of the rules may have
InsightInputs(k) ==
    CASE k = "intensity_percentile" -> {NaN, Num(Rat(10, 1)), Num(Rat(90, 1))}
      [] k = "z_intensity" -> {None, NaN, Num(ZeroZ), Num(Z(Rat(-2, 1), 1)), Num(Z(Rat(1, 1), 2))}
      [] k = "early_mp" -> {NaN, Num(0), Num(10)}
      [] k = "late_mp" -> {NaN, Num(10), Num(20)}

\* rows with each input of the rules absent, missing or present
InsightRows ==
    {NoneRow, Row(<<>>)} \cup
    UNION {{Row([k \in ks |-> IF k = "intensity_percentile" THEN p
                              ELSE IF k = "z_intensity" THEN z
                              ELSE IF k = "early_mp" THEN early ELSE late]) :
               p \in InsightInputs("intensity_percentile"), z \in InsightInputs("z_intensity"),
               early \in InsightInputs("early_mp"), late \in InsightInputs("late_mp")}
           : ks \in SUBSET {"intensity_percentile", "z_intensity", "early_mp", "late_mp"}}

----------------------------------------------------------------------------
(* The Player Analysis page, lines 620-737: selectors, metrics and sections *)

\* a list of window columns
Windows(s) == [tag |-> "list", v |-> s]

\* line 622
window_choices ==
    {"intensity", "intensity_5s", "intensity_10s", "intensity_20s", "intensity_30s"}

\* line 625
DefaultWindows == Windows({"intensity", "intensity_10s", "intensity_20s"})

\* what the user may have set the window selector to: no window at all
WindowPicks == {Windows({})}

WindowSelector == [el |-> "multiselect", label |-> "Intensity Windows:"]

ViewModeRadio == [el |-> "radio", label |-> "View Mode:"]

\* lines 620-631: the window selector; the widget keeps the value stored under
\* its key unless the user has changed it
PageWindowSelect ==
    /\ page = "selected"
    /\ LET ss1 == IF InState(session_state, "viz_windows") THEN session_state
                  ELSE [session_state EXCEPT !.viz_windows = DefaultWindows]
           kept == IF InState(ss1, "player_window_select") THEN ss1.player_window_select
                   ELSE ss1.viz_windows
       IN  \E window_options \in {kept} \cup WindowPicks :
               /\ session_state' = [ss1 EXCEPT !.player_window_select = window_options,
                                                !.viz_windows = window_options]
               /\ run' = [run EXCEPT !.window_options = window_options]
    /\ st' = Append(st, WindowSelector)
    /\ page' = "view_mode"
    /\ UNCHANGED <<filterVars, helperVars, scoreVars, calls, error>>

\* lines 639-646: the view mode toggle
PageViewMode ==
    /\ page = "view_mode"
    /\ LET ss1 == IF InState(session_state, "player_view_mode") THEN session_state
                  ELSE [session_state EXCEPT !.player_view_mode = Str("Coach")]
           index == IF ss1.player_view_mode = Str("Coach") THEN 0 ELSE 1
           kept == IF InState(ss1, "player_view_mode_radio") THEN ss1.player_view_mode_radio
                   ELSE IF index = 0 THEN Str("Coach") ELSE Str("Analyst")
       IN  \E player_view_mode \in {kept, Str("Coach"), Str("Analyst")} :
               /\ session_state' = [ss1 EXCEPT !.player_view_mode_radio = player_view_mode,
                                                !.player_view_mode = player_view_mode]
               /\ run' = [run EXCEPT !.player_view_mode = player_view_mode]
    /\ st' = Append(st, ViewModeRadio)
    /\ page' = "metrics"
    /\ UNCHANGED <<filterVars, helperVars, scoreVars, calls, error>>

MetricsWarning == [el |-> "warning", text |-> "Error computing coach metrics"]

\* a row of the coach metrics frame: the player, the numeric metrics, and a
\* column that is not numeric
MetricsFrameRow(p, score, early, late) ==
    [player_id |-> Str(p), intensity_score |-> score, intensity_category |-> Str("High"),
     early_mp |-> early, late_mp |-> late]

\* what get_player_session_metrics does at lines 659-663: it raises, or gives
\* nothing, an empty frame, or a row for some or all players of the session,
\* with or without an intensity score
MetricsResults ==
    {[raised |-> TRUE, df |-> None], [raised |-> FALSE, df |-> None]}
    \cup {[raised |-> FALSE, df |-> Frame(f)] :
             f \in {<<>>,
                    <<MetricsFrameRow("p1", Num(2), Num(10), Num(20))>>,
                    <<MetricsFrameRow("p1", NaN, NaN, NaN)>>,
                    <<MetricsFrameRow("p1", Num(2), Num(10), Num(20)),
                      MetricsFrameRow("p2", Num(4), Num(20), Num(10))>>,
                    <<MetricsFrameRow("p1", NaN, NaN, NaN),
                      MetricsFrameRow("p2", Num(4), Num(20), Num(10))>>}}

\* line 677: select_dtypes(include=['number']), the columns holding numbers or NaN
NumericCols(df) ==
    {c \in DOMAIN df[1] : \A i \in 1..Len(df) : df[i][c].tag \in {"num", "nan"}}

\* Series.mean(): the mean of the values that are there, NaN when there is none
ColumnMean(df, c) ==
    LET at == {i \in 1..Len(df) : notna(df[i][c])}
        total == SumOver([i \in at |-> df[i][c].v], at)
        n == Cardinality(at)
    IN  IF at = {} THEN NaN
        ELSE IF total % n = 0 THEN Num(total \div n) ELSE Num(Rat(total, n))

\* the numeric metrics of the first player in place of the mean
TeamAverageRowFirst(df) ==
    Row([c \in NumericCols(df) \cup {"player_name"} |->
            IF c = "player_name" THEN Str("Team Average") ELSE df[1][c]])

\* lines 677-679: the mean of the numeric columns, named 'Team Average'
TeamAverageRow(df) ==
    Row([c \in NumericCols(df) \cup {"player_name"} |->
            IF c = "player_name" THEN Str("Team Average") ELSE ColumnMean(df, c)])

\* lines 666-679: the row of the selected player, None without one, or the
\* team average when no player is selected
SelectedMetricsRow(metrics_df, selected_player_id) ==
    IF metrics_df = None \/ metrics_df.v = <<>> THEN NoneRow
    ELSE IF selected_player_id # None
    THEN LET at == {i \in 1..Len(metrics_df.v) : metrics_df.v[i].player_id = selected_player_id}
         IN  IF at = {} THEN NoneRow ELSE Row(metrics_df.v[SetMin(at)])
    ELSE TeamAverageRow(metrics_df.v)

\* lines 652-695: the coach metrics of the selected player, any exception caught
PageMetrics ==
    /\ page = "metrics"
    /\ \E r \in MetricsResults :
        /\ run' = [run EXCEPT !.metrics_df = r.df,
                              !.metrics_row = SelectedMetricsRow(r.df, run.selected_player_id)]
        /\ st' = IF r.raised THEN Append(st, MetricsWarning) ELSE st
    /\ page' = "render"
    /\ UNCHANGED <<filterVars, helperVars, scoreVars, calls, session_state, error>>

NoSessionInfo ==
    [el |-> "info", text |-> "No session data available for the selected filters."]

ChartHeader == <<[el |-> "markdown", text |-> "Intensity Over Time (Detailed)"]>>

ExportHeader == <<[el |-> "markdown", text |-> "Export for Further Analysis"]>>

Footer == <<[el |-> "caption", text |-> "Player Analysis | Grow Irish Performance Analytics"]>>

\* line 394: the team average selects the chosen window columns, which the
\* raw data used in place of the intensity frame does not have
ChartRaises(session_data, selected_player_id, window_options) ==
    /\ selected_player_id = None
    /\ window_options.v # {}
    /\ ~session_data.intensity

\* lines 715-720: the samples of the selected player, or the team average
PlayerSessionFrame(session_data) ==
    DataFrame(1, [c \in (IF "mp" \in session_data.signals THEN {MpCol} ELSE {}) |-> <<Num(1)>>])

\* lines 704-710: the coach backbone
Backbone(row, selected_player_display) ==
    RenderSessionSnapshot(row, selected_player_display)
        \o RenderTeamComparison(row).st
        \o RenderEarlyMidLateTrend(row).st
        \o RenderCoachInsights(row)

\* lines 701-737: the sections of the page
PageRender ==
    /\ page = "render"
    /\ LET row == run.metrics_row
           display == run.selected_player_display.v
       IN  IF ~row.none /\ notna(RowGet(row, "intensity_score"))
           THEN IF run.player_view_mode = Str("Analyst")
                THEN IF ChartRaises(run.session_data.v, run.selected_player_id,
                                    run.window_options)
                     THEN /\ st' = st \o Backbone(row, display) \o ChartHeader
                          /\ page' = "failed"
                          /\ error' = Raised("KeyError", 394)
                     ELSE /\ st' = st \o Backbone(row, display) \o ChartHeader
                                      \o RenderMdpSummary(PlayerSessionFrame(run.session_data.v), row)
                                      \o ExportHeader \o Footer
                          /\ page' = "rendered"
                          /\ error' = error
                ELSE /\ st' = st \o Backbone(row, display) \o Footer
                     /\ page' = "rendered"
                     /\ error' = error
           ELSE /\ st' = Append(st, NoSessionInfo) \o Footer
                /\ page' = "rendered"
                /\ error' = error
    /\ UNCHANGED <<filterVars, helperVars, scoreVars, calls, session_state, run>>

\* the script runs to its end, stops or fails, and Streamlit waits for the next event
PageEnd ==
    /\ page \in {"rendered", "stopped", "failed"}
    /\ page' = "idle"
    /\ run' = NoRun
    /\ st' = <<>>
    /\ error' = NoError
    /\ UNCHANGED <<filterVars, helperVars, scoreVars, calls, session_state>>

NextPage ==
    \/ HomeLoad
    \/ UserPicksSession
    \/ UserPicksPlayer
    \/ PageStart
    \/ PageIntensity
    \/ PageDates
    \/ PageSessionSelect
    \/ PagePlayerSelect
    \/ PageWindowSelect
    \/ PageViewMode
    \/ PageMetrics
    \/ PageRender
    \/ PageEnd

----------------------------------------------------------------------------
(* apply_filters of the session intensity explorer *)

\* the rows of the table: a player, a day, an intensity index
FilterRowSet ==
    {[player_id |-> p, date |-> d, session_intensity_index |-> x] :
        p \in {1, 2}, d \in {1, 2}, x \in {1, 2}}

FilterFrames == UNION {SeqsOfLen(FilterRowSet, n) : n \in 0..MaxFilterRows}

\* the player selections of the sidebar: none, one player, both, one not in the data
PlayerSelections == {{}, {1}, {1, 2}, {3}}

NoDateRange == [kind |-> "none"]

DateTuple(s) == [kind |-> "tuple", v |-> s]

\* what st.date_input returns for a range: no date, the start date only while
\* the user is choosing, or both; the page passes None for an empty table
DateRanges ==
    {NoDateRange} \cup {DateTuple(s) : s \in {<<>>, <<1>>, <<1, 1>>, <<1, 2>>, <<2, 1>>}}

\* bool(date_range)
Truthy(date_range) == date_range.kind = "tuple" /\ date_range.v # <<>>

\* a player filter that takes an empty selection literally
PlayerFilterLiteral(df, keep, selected_players) ==
    {i \in keep : df[i].player_id \in selected_players}

\* lines 64-66
PlayerFilter(df, keep, selected_players) ==
    IF selected_players # {}
    THEN {i \in keep : df[i].player_id \in selected_players}
    ELSE keep

\* lines 68-74
DateFilter(df, keep, date_range) ==
    IF Truthy(date_range)
    THEN {i \in keep : df[i].date >= date_range.v[1] /\ df[i].date <= date_range.v[2]}
    ELSE keep

\* the values of the rows in keep, in ascending order
RECURSIVE Ascending(_, _)
Ascending(df, keep) ==
    IF keep = {} THEN <<>>
    ELSE LET i == CHOOSE j \in keep :
                      \A k \in keep : df[j].session_intensity_index <= df[k].session_intensity_index
         IN  <<df[i].session_intensity_index>> \o Ascending(df, keep \ {i})

\* four times Series.quantile(0.75), linear interpolation between the two
\* values around position 0.75 * (n - 1)
Quantile75x4(df, keep) ==
    LET asc == Ascending(df, keep)
        n == Len(asc)
        lo == (3 * (n - 1)) \div 4
        k == (3 * (n - 1)) % 4
        hi == IF lo + 2 <= n THEN lo + 2 ELSE n
    IN  4 * asc[lo + 1] + k * (asc[hi] - asc[lo + 1])

\* the threshold taken from the whole table instead of the filtered rows
HighIntensityFilterOfAll(df, keep, high_intensity_only) ==
    IF high_intensity_only /\ keep # {}
    THEN {i \in keep : 4 * df[i].session_intensity_index >= Quantile75x4(df, DOMAIN df)}
    ELSE keep

\* lines 76-79
HighIntensityFilter(df, keep, high_intensity_only) ==
    IF high_intensity_only /\ keep # {}
    THEN {i \in keep : 4 * df[i].session_intensity_index >= Quantile75x4(df, keep)}
    ELSE keep

\* line 81: the orders sort_values may give the rows, ties in any order
SortedOrders(df, keep) ==
    {s \in [1..Cardinality(keep) -> keep] :
        /\ \A i, j \in DOMAIN s : i # j => s[i] # s[j]
        /\ \A i \in 1..(Len(s) - 1) :
               df[s[i]].session_intensity_index >= df[s[i + 1]].session_intensity_index}

\* lines 53-81 up to the sort: the rows kept, or the exception of line 70, where
\* a date range of one date cannot be unpacked into start and end
ApplyFilters(df, selected_players, date_range, high_intensity_only) ==
    IF Truthy(date_range) /\ Len(date_range.v) # 2
    THEN [raised |-> "ValueError", line |-> 70]
    ELSE [rows |-> HighIntensityFilter(df,
                       DateFilter(df, PlayerFilter(df, DOMAIN df, selected_players), date_range),
                       high_intensity_only)]

NoFilterCall == [fn |-> "none"]

\* lines 315-320: the explorer filters the table
CallApplyFilters ==
    /\ filter_call = NoFilterCall
    /\ \E df \in FilterFrames, selected_players \in PlayerSelections,
          date_range \in DateRanges, high_intensity_only \in BOOLEAN :
        LET out == ApplyFilters(df, selected_players, date_range, high_intensity_only)
        IN  /\ filter_call' = [fn |-> "apply_filters", df |-> df, df_after |-> df,
                                selected_players |-> selected_players,
                                date_range |-> date_range,
                                high_intensity_only |-> high_intensity_only]
            /\ IF "raised" \in DOMAIN out
               THEN filtered' = out
               ELSE \E order \in SortedOrders(df, out.rows) : filtered' = [order |-> order]
    /\ UNCHANGED <<helperVars, pageVars, scoreVars, st, calls>>

\* the page has shown the result
ReturnFilter ==
    /\ filter_call # NoFilterCall
    /\ filter_call' = NoFilterCall
    /\ filtered' = Unset
    /\ UNCHANGED <<helperVars, pageVars, scoreVars, st, calls>>

NextFilter ==
    \/ CallApplyFilters
    \/ ReturnFilter

----------------------------------------------------------------------------
(* compute_player_mdp_metrics, statement by statement, for concurrent callers *)

\* two (player, session) pairs computed at the same time
Invocations == {1, 2}

\* the frames the concurrent callers pass: no frame, no rows, or one row with
\* any 5s and 10s cells
PairFrames ==
    {NoneDF, DataFrame(0, <<>>)}
    \cup {FrameOf(1, (IntensityCol(5) :> a) @@ (IntensityCol(10) :> b)) :
            a \in {<<c>> : c \in Cells} \cup {Absent},
            b \in {<<c>> : c \in Cells} \cup {Absent}}

Idle == [at |-> "idle"]

NoLocals == [tag |-> "unset"]

\* every invocation writing to one and the same frame (not the code)
SharedFrame(p) == 1

\* the frame of locals of invocation p: a Python call has its own
FrameSlot(p) == p

\* line 92: the call, its argument bound, and the return for an empty frame
ConcCall(p) ==
    /\ inv[p].at = "idle"
    /\ \E df \in PairFrames :
        /\ locals' = [locals EXCEPT ![FrameSlot(p)] =
                          [player_session_df |-> df, metrics |-> <<>>, next |-> 1]]
        /\ inv' = [inv EXCEPT ![p] =
                       IF df.none \/ DfLen(df) = 0
                       THEN [at |-> "returned", arg |-> df, ret |-> EmptyMetrics]
                       ELSE [at |-> "windows", arg |-> df]]
    /\ UNCHANGED <<filterVars, callVars, pageVars, scoreVars, st, calls>>

\* lines 103-109: one iteration of the window loop
ConcWindow(p) ==
    /\ inv[p].at = "windows"
    /\ LET l == locals[FrameSlot(p)]
           w == WindowSizes[l.next]
           mdp == (w :> WindowPeak(l.player_session_df, w)) @@ l.metrics
       IN  /\ l # NoLocals /\ l.next <= Len(WindowSizes)
           /\ IF l.player_session_df.none
              \* line 104 reads player_session_df.columns: None has none
              THEN /\ locals' = locals
                   /\ inv' = [inv EXCEPT ![p] = [at |-> "returned", arg |-> inv[p].arg,
                                                 ret |-> [raised |-> "AttributeError"]]]
              ELSE /\ locals' = [locals EXCEPT ![FrameSlot(p)] =
                                     [l EXCEPT !.metrics = mdp, !.next = l.next + 1]]
                   /\ inv' = [inv EXCEPT ![p].at =
                                  IF l.next = Len(WindowSizes) THEN "peak" ELSE "windows"]
    /\ UNCHANGED <<filterVars, callVars, pageVars, scoreVars, st, calls>>

\* lines 111-137: the overall peak, the data quality, and the return
ConcFinish(p) ==
    /\ inv[p].at = "peak"
    /\ LET l == locals[FrameSlot(p)]
           mdp == [w \in WindowSet |-> IF w \in DOMAIN l.metrics THEN l.metrics[w] ELSE None]
           peak_values == {mdp[w].v : w \in {x \in WindowSet : mdp[x] # None}}
           peak == IF peak_values # {} THEN Num(SetMax(peak_values)) ELSE None
           df == l.player_session_df
       IN  /\ l # NoLocals
           /\ inv' = [inv EXCEPT ![p] =
                  [at |-> "returned", arg |-> inv[p].arg,
                   ret |-> [mdp |-> mdp,
                            mdp_peak_value |-> peak,
                            mdp_peak_window |-> IF peak_values # {} THEN PeakWindow(mdp, peak)
                                                ELSE "None",
                            data_quality |-> IF df.none THEN [coverage |-> Rat(0, 1), samples |-> 0]
                                             ELSE [coverage |-> Coverage(df), samples |-> DfLen(df)],
                            has_peak_data |-> \E w \in WindowSet : mdp[w] # None]]]
           /\ locals' = [locals EXCEPT ![FrameSlot(p)] = NoLocals]
    /\ UNCHANGED <<filterVars, callVars, pageVars, scoreVars, st, calls>>

\* the caller takes the record
ConcReturn(p) ==
    /\ inv[p].at = "returned"
    /\ inv' = [inv EXCEPT ![p] = Idle]
    /\ UNCHANGED <<filterVars, callVars, pageVars, scoreVars, st, calls, locals>>

NextConc ==
    \E p \in Invocations :
        \/ ConcCall(p)
        \/ ConcWindow(p)
        \/ ConcFinish(p)
        \/ ConcReturn(p)

----------------------------------------------------------------------------
(* State machine *)

Init ==
    /\ pc = "idle"
    /\ player_session_df = NoneDF
    /\ metrics = Unset
    /\ metrics_row = NoneRow
    /\ st = <<>>
    /\ trend_data = Unset
    /\ percentile = Unset
    /\ category = "Unset"
    /\ session_state = FreshSessionState
    /\ page = "idle"
    /\ run = NoRun
    /\ error = NoError
    /\ files = <<>>
    /\ load_cache = Unset
    /\ intensity_cache = <<>>
    /\ score_call = NoCall
    /\ session_df = Unset
    /\ results = <<>>
    /\ calls = 0
    /\ squad = Unset
    /\ percentiles = Unset
    /\ inv = [p \in Invocations |-> Idle]
    /\ locals = [p \in Invocations |-> NoLocals]
    /\ filter_call = NoFilterCall
    /\ filtered = Unset

\* a caller computes the peak metrics of one player-session
CallComputePlayerMdpMetrics ==
    /\ pc = "idle"
    /\ \E df \in SessionFrames :
        /\ player_session_df' = df
        /\ metrics' = ComputePlayerMdpMetrics(df)
    /\ pc' = "compute_player_mdp_metrics"
    /\ calls' = 1
    /\ UNCHANGED <<filterVars, renderVars, trendVars, classVars, pageVars, scoreVars, concVars, teamVars>>

\* the same caller calls again with the frame it still holds
RepeatComputePlayerMdpMetrics ==
    /\ pc = "compute_player_mdp_metrics"
    /\ calls = 1
    /\ metrics' = ComputePlayerMdpMetrics(player_session_df)
    /\ calls' = 2
    /\ UNCHANGED <<filterVars, pc, player_session_df, renderVars, trendVars, classVars, pageVars, scoreVars, concVars, teamVars>>

\* the Analyst view renders the MDP summary of one player-session
CallRenderMdpSummary ==
    /\ pc = "idle"
    /\ \E a \in SummaryArgs :
        /\ player_session_df' = a[1]
        /\ metrics_row' = a[2]
        /\ st' = RenderMdpSummary(a[1], a[2])
    /\ pc' = "render_mdp_summary"
    /\ calls' = 1
    /\ UNCHANGED <<filterVars, metrics, trendVars, classVars, pageVars, scoreVars, concVars, teamVars>>

\* the page renders the early / mid / late trend of one coach-metrics row
CallRenderEarlyMidLateTrend ==
    /\ pc = "idle"
    /\ \E row \in TrendRows :
        /\ metrics_row' = row
        /\ trend_data' = RenderEarlyMidLateTrend(row).trend_data
        /\ st' = RenderEarlyMidLateTrend(row).st
    /\ pc' = "render_early_mid_late_trend"
    /\ calls' = 1
    /\ UNCHANGED <<filterVars, mdpVars, classVars, pageVars, scoreVars, concVars, teamVars>>

\* a percentile is classified
CallClassify ==
    /\ pc = "idle"
    /\ \E p \in Percentiles :
        /\ percentile' = p
        /\ category' = classify_intensity_from_percentile(p)
    /\ pc' = "classify_intensity_from_percentile"
    /\ calls' = 1
    /\ UNCHANGED <<filterVars, mdpVars, renderVars, trendVars, pageVars, scoreVars, concVars, teamVars>>

\* the page renders the snapshot and the team comparison of one coach-metrics row
CallRenderTeamComparison ==
    /\ pc = "idle"
    /\ \/ \E t \in Teams :
            /\ squad' = t
            /\ metrics_row' = NormalizedRow(t.values, t.i, t.method)
       \/ \E row \in BareRows :
            /\ squad' = Unset
            /\ metrics_row' = row
    /\ st' = RenderSessionSnapshot(metrics_row', "Player 1")
                \o RenderTeamComparison(metrics_row').st
    /\ percentiles' = RenderTeamComparison(metrics_row').percentiles
    /\ pc' = "render_team_comparison"
    /\ calls' = 1
    /\ UNCHANGED <<filterVars, mdpVars, trendVars, classVars, pageVars, scoreVars, concVars>>

\* lines 708-710: the page renders the trend and the insights of one row
CallRenderCoachInsights ==
    /\ pc = "idle"
    /\ \E row \in InsightRows :
        /\ metrics_row' = row
        /\ trend_data' = RenderEarlyMidLateTrend(row).trend_data
        /\ st' = RenderEarlyMidLateTrend(row).st \o RenderCoachInsights(row)
    /\ pc' = "render_coach_insights"
    /\ calls' = 1
    /\ UNCHANGED <<filterVars, mdpVars, classVars, pageVars, scoreVars, concVars, teamVars>>

\* a rerun of the script renders the same row again
RepeatRenderCoachInsights ==
    /\ pc = "render_coach_insights"
    /\ calls = 1
    /\ trend_data' = RenderEarlyMidLateTrend(metrics_row).trend_data
    /\ st' = RenderEarlyMidLateTrend(metrics_row).st \o RenderCoachInsights(metrics_row)
    /\ calls' = 2
    /\ UNCHANGED <<filterVars, pc, metrics_row, mdpVars, classVars, pageVars, scoreVars, concVars, teamVars>>

\* the result is consumed; the next call starts from scratch
Return ==
    /\ pc # "idle"
    /\ pc' = "idle"
    /\ player_session_df' = NoneDF
    /\ metrics' = Unset
    /\ metrics_row' = NoneRow
    /\ st' = <<>>
    /\ trend_data' = Unset
    /\ percentile' = Unset
    /\ category' = "Unset"
    /\ calls' = 0
    /\ squad' = Unset
    /\ percentiles' = Unset
    /\ UNCHANGED <<filterVars, pageVars, scoreVars, concVars>>

Next ==
    \/ CallComputePlayerMdpMetrics
    \/ RepeatComputePlayerMdpMetrics
    \/ CallRenderMdpSummary
    \/ CallRenderEarlyMidLateTrend
    \/ CallClassify
    \/ CallRenderTeamComparison
    \/ CallRenderCoachInsights
    \/ RepeatRenderCoachInsights
    \/ Return

Spec == Init /\ [][Next]_vars

\* the Player Analysis page under reruns, user choices and data loads
SpecPage == Init /\ [][NextPage]_vars

\* the scoring engine and its cached wrapper under calls and recorded sessions
SpecScore == Init /\ [][NextScore]_vars

\* no scoring call has been made and no session recorded
ScoreUntouched ==
    /\ files = <<>> /\ load_cache = Unset /\ intensity_cache = <<>>
    /\ score_call = NoCall

\* each behaviour exercises compute_player_mdp_metrics and the render helpers,
\* or the scoring engine: the two share no variable
NextEngine ==
    \/ ScoreUntouched /\ Next
    \/ pc = "idle" /\ NextScore

SpecEngine == Init /\ [][NextEngine]_vars

\* compute_player_mdp_metrics called for two pairs at once, in any interleaving
SpecConc == Init /\ [][NextConc]_vars

SpecFilter == Init /\ [][NextFilter]_vars

----------------------------------------------------------------------------
(* Properties of compute_player_mdp_metrics and render_mdp_summary *)

Computed == pc = "compute_player_mdp_metrics"

Summarised == pc = "render_mdp_summary"

\* the argument is None or has no rows
EmptyArg == player_session_df.none \/ player_session_df.n = 0

\* the windows for which compute_player_mdp_metrics reports a peak
PresentWindows == {w \in WindowSet : metrics.mdp[w] # None}

\* C1: the overall peak is the maximum of the per-window peaks that are not
\* None, mdp_peak_window names a window holding that maximum, and among the
\* windows that tie for the maximum the shortest one is named.
C1_OverallPeak ==
    Computed =>
        IF PresentWindows = {}
        THEN metrics.mdp_peak_value = None /\ metrics.mdp_peak_window = "None"
        ELSE /\ notna(metrics.mdp_peak_value)
             /\ \A w \in PresentWindows : metrics.mdp[w].v <= metrics.mdp_peak_value.v
             /\ \E w \in PresentWindows :
                    /\ metrics.mdp_peak_window = WindowLabel(w)
                    /\ metrics.mdp[w] = metrics.mdp_peak_value
                    /\ \A u \in PresentWindows :
                          metrics.mdp[u] = metrics.mdp_peak_value => w <= u

\* two windows other than the shortest tie for the peak and the shorter is named
C1_TieWitness ==
    /\ Computed
    /\ metrics.mdp[5] # metrics.mdp_peak_value
    /\ metrics.mdp[10] = metrics.mdp_peak_value
    /\ metrics.mdp[30] = metrics.mdp_peak_value
    /\ notna(metrics.mdp_peak_value)
    /\ metrics.mdp_peak_window = "10s"

\* C2 as stated: for a missing or empty session every field of the record,
\* data_quality included, is None and has_peak_data is false.
C2_AllFieldsNone ==
    (Computed /\ EmptyArg) =>
        /\ \A w \in WindowSet : metrics.mdp[w] = None
        /\ metrics.mdp_peak_value = None
        /\ metrics.mdp_peak_window = "None"
        /\ metrics.data_quality = None
        /\ metrics.has_peak_data = FALSE

\* C2 amended: for a missing or empty session a record is returned whose four
\* window peaks, overall peak and peak window are None and whose has_peak_data
\* is false, while data_quality is the record {coverage: 0, samples: 0}.
C2_EmptyRecord ==
    (Computed /\ EmptyArg) =>
        /\ \A w \in WindowSet : metrics.mdp[w] = None
        /\ metrics.mdp_peak_value = None
        /\ metrics.mdp_peak_window = "None"
        /\ metrics.data_quality = [coverage |-> Rat(0, 1), samples |-> 0]
        /\ metrics.has_peak_data = FALSE

\* a frame that has columns but no rows has been processed
C2_EmptyWitness ==
    /\ Computed
    /\ ~player_session_df.none
    /\ player_session_df.n = 0
    /\ HasCol(player_session_df, IntensityCol(10))
    /\ metrics.has_peak_data = FALSE

\* the window's rolling column is absent or undefined at every position
NoUsableData(df, w) ==
    \/ ~HasCol(df, IntensityCol(w))
    \/ \A i \in 1..df.n : isna(df.cols[IntensityCol(w)][i])

\* the metric tiles among the emitted elements
MetricTiles == {st[i] : i \in {j \in 1..Len(st) : st[j].el = "metric"}}

\* C3: a window without usable data gets None (N/A in the summary) and every
\* other window still gets its own peak: in compute_player_mdp_metrics the
\* largest defined cell of its column, in render_mdp_summary a value for
\* exactly the windows that fit into the defined mp samples.
C3_OtherWindowsComputed ==
    /\ (Computed /\ ~EmptyArg) =>
          \A w \in WindowSet :
            IF NoUsableData(player_session_df, w)
            THEN metrics.mdp[w] = None
            ELSE /\ notna(metrics.mdp[w])
                 /\ \E i \in 1..player_session_df.n :
                        player_session_df.cols[IntensityCol(w)][i] = metrics.mdp[w]
                 /\ \A i \in 1..player_session_df.n :
                        LET c == player_session_df.cols[IntensityCol(w)][i]
                        IN  notna(c) => c.v <= metrics.mdp[w].v
    /\ (Summarised /\ ~EmptyArg /\ HasCol(player_session_df, MpCol)
            /\ dropna(player_session_df.cols[MpCol]) # <<>>) =>
          \A w \in WindowSet :
            \E t \in MetricTiles :
                /\ t.label = w
                /\ (t.value = <<"N/A">>) <=> (Len(dropna(player_session_df.cols[MpCol])) < w)

\* one window has no usable data while another one is reported
C3_PartialWitness ==
    /\ Computed
    /\ ~EmptyArg
    /\ ~HasCol(player_session_df, IntensityCol(5))
    /\ HasCol(player_session_df, IntensityCol(20))
    /\ \A i \in 1..player_session_df.n : isna(player_session_df.cols[IntensityCol(20)][i])
    /\ metrics.mdp[5] = None
    /\ metrics.mdp[20] = None
    /\ notna(metrics.mdp[10])
    /\ notna(metrics.mdp[30])

\* C4: every MDP value shown for a window length was computed for that window
\* length, on the mp path and on the path without an mp column alike.
C4_OwnWindow ==
    Summarised =>
        \A t \in MetricTiles : t.value # <<"N/A">> => t.window = t.label

----------------------------------------------------------------------------
(* Properties of the classification and of the trend *)

Classified == pc = "classify_intensity_from_percentile" /\ notna(percentile)

\* C5: every percentile of [0, 100] gets exactly one category: Easy below 25,
\* Medium in [25, 60), Hard in [60, 85), Very Hard from 85 on.
C5_Classification ==
    Classified =>
        /\ category \in {"Easy", "Medium", "Hard", "Very Hard"}
        /\ (category = "Easy") <=> (percentile.v < 25000)
        /\ (category = "Medium") <=> (25000 <= percentile.v /\ percentile.v < 60000)
        /\ (category = "Hard") <=> (60000 <= percentile.v /\ percentile.v < 85000)
        /\ (category = "Very Hard") <=> (85000 <= percentile.v)
        /\ (percentile.v = 24999 => category = "Easy")
        /\ (percentile.v = 59999 => category = "Medium")
        /\ (percentile.v = 84999 => category = "Hard")

\* the boundary 25 has been classified
C5_BoundaryWitness == Classified /\ percentile.v = 25000 /\ category = "Medium"

Trended == pc = "render_early_mid_late_trend" /\ trend_data.computed

\* the trend captions among the emitted elements
TrendCaptions == {i \in 1..Len(st) : st[i].el = "caption"}

\* C6: the trend is (late - early) / early * 100; it is labelled increasing
\* exactly above +5%, decreasing exactly below -5% and stable otherwise, +5%
\* and -5% included; exactly one label is shown.
C6_TrendLabel ==
    Trended =>
        LET early == RowGet(metrics_row, "early_mp").v
            late == RowGet(metrics_row, "late_mp").v
        IN  /\ trend_data.trend_pct.num * early = (late - early) * 100 * trend_data.trend_pct.den
            /\ trend_data.trend_pct.den > 0
            /\ Cardinality(TrendCaptions) = 1
            /\ \A i \in TrendCaptions :
                  /\ st[i].text \in {"Increasing", "Decreasing", "Stable"}
                  /\ (st[i].text = "Increasing") <=> (20 * late > 21 * early)
                  /\ (st[i].text = "Decreasing") <=> (20 * late < 19 * early)
                  /\ (st[i].text = "Stable") <=> (19 * early <= 20 * late /\ 20 * late <= 21 * early)

\* a change of exactly +5% has been labelled stable
C6_ExactFiveWitness ==
    /\ Trended
    /\ trend_data.trend_pct = Rat(5, 1)
    /\ \E i \in TrendCaptions : st[i].text = "Stable"

----------------------------------------------------------------------------
(* Properties of the page's intensity step (lines 549-570) *)

\* the run has passed the intensity step
PastIntensity ==
    page \in {"dates", "session_select", "player_select", "selected", "view_mode", "metrics",
              "render", "rendered", "failed"}

FewSignals == run.raw_df.tag = "df" /\ Cardinality(AvailableCols(run.raw_df.v)) < 3

\* C7: with at least 3 of the 4 signal columns the intensity and its rolling
\* windows are computed; with fewer the page warns, uses the raw data
\* unchanged, and goes on to session and player selection without failing
C7_FallbackContinues ==
    PastIntensity =>
        IF FewSignals
        THEN /\ RawDataWarning \in Range(st)
             /\ run.session_data.v.intensity = FALSE
             /\ page # "failed"
        ELSE /\ RawDataWarning \notin Range(st)
             /\ run.session_data.v.intensity = TRUE

----------------------------------------------------------------------------
(* Properties of session intensity scoring *)

KeyOf(weights) == [raw_path |-> RawPath, weights |-> weights]

\* the cache holds a frame for each of the three presets
PresetsApplied == \A w \in Presets : KeyOf(w) \in DOMAIN intensity_cache

\* some session's index differs between two of the frames
IndicesDiffer(frames) ==
    \E w1 \in Presets, w2 \in Presets :
        \E i \in DOMAIN frames[w1] :
            frames[w1][i].session_intensity_index # frames[w2][i].session_intensity_index

CachedFrames == [w \in Presets |-> intensity_cache[KeyOf(w)]]

\* some session's three z-scores are not all equal
UnequalZ(frame) ==
    \E i \in DOMAIN frame :
        ~(/\ frame[i].explosiveness_z = frame[i].repeatability_z
          /\ frame[i].repeatability_z = frame[i].volume_z)

\* C8 as stated: the three presets applied to the same raw dataset give
\* session_intensity_index values that differ, for at least one session,
\* between two presets
C8_PresetsDiffer == PresetsApplied => IndicesDiffer(CachedFrames)

\* C8, amended: the three presets, through the cached wrapper or through
\* build_session_intensity_df, give indices that differ for some session
\* between two presets exactly when some session's three z-scores are not all
\* equal
C8_PresetsDifferIffUnequalZ ==
    /\ PresetsApplied => (IndicesDiffer(CachedFrames) <=> UnequalZ(CachedFrames[Balanced]))
    /\ results # <<>> => (IndicesDiffer(results) <=> UnequalZ(results[Balanced]))

C8_DifferWitness == PresetsApplied /\ IndicesDiffer(CachedFrames)

\* C9: every scoring call gets its three weights from its caller, none from a
\* default of the scorer or of its wrapper
C9_WeightsFromCaller == score_call # NoCall => score_call.weights_from = "caller"

\* the weights a call asks for: its arguments, else the documented 30/50/20
WeightsInEffect == IF score_call.args.weights = Missing THEN Balanced ELSE score_call.args.weights

Teammates(frame, i) == {j \in DOMAIN frame : frame[j].session_id = frame[i].session_id}

\* C10: in every returned frame each player-session's index is
\* w_explosiveness * explosiveness_z + w_repeatability * repeatability_z
\* + w_volume * volume_z, the sub-scores being the z-scores, within the
\* session's team, of the 10s peak, of the average of the 20s and 30s peaks
\* and of the total load
C10_IndexFormula ==
    session_df # Unset =>
        LET frame == session_df.v
        IN  \A i \in DOMAIN frame :
                LET team == Teammates(frame, i)
                    row == frame[i]
                IN  /\ row.explosiveness_z =
                           ZScore(row.mdp_10, [j \in team |-> frame[j].mdp_10], team)
                    /\ row.repeatability_z =
                           ZScore(row.mdp_20 + row.mdp_30,
                                  [j \in team |-> frame[j].mdp_20 + frame[j].mdp_30], team)
                    /\ row.volume_z =
                           ZScore(row.total_mp_load,
                                  [j \in team |-> frame[j].total_mp_load], team)
                    /\ row.session_intensity_index =
                           WeightedSum(WeightsInEffect, row.explosiveness_z,
                                       row.repeatability_z, row.volume_z)

C10_WeightedWitness ==
    /\ session_df # Unset
    /\ score_call.fn = "get_session_intensity_df"
    /\ score_call.args.weights = SpeedEmphasis
    /\ \E i \in DOMAIN session_df.v :
           /\ session_df.v[i].explosiveness_z # ZeroZ
           /\ session_df.v[i].explosiveness_z # session_df.v[i].repeatability_z
           /\ session_df.v[i].session_intensity_index # {}

----------------------------------------------------------------------------
(* Determinism of the engine *)

----------------------------------------------------------------------------
(* The cache around the engine *)

\* what an uncached computation on the current file gives for the call
FreshFrame == build_session_intensity_df(files, WrapperWeights(score_call.args))

----------------------------------------------------------------------------
(* Independence of concurrent computations *)

----------------------------------------------------------------------------
(* compute_mdp failures in render_mdp_summary *)

\* the summary was rendered for a frame with rows and an mp column
SummarisedMp == Summarised /\ ~EmptyArg /\ HasCol(player_session_df, MpCol)

MpSeries == player_session_df.cols[MpCol]

\* the tile of window w shows what compute_mdp returned for it, N/A for (None, None)
TileShows(w) ==
    LET v == compute_mdp(MpSeries, w)
    IN  \E t \in MetricTiles :
            /\ t.label = w
            /\ t.value = IF v = <<None, None>> THEN <<"N/A">> ELSE format_mdp_display(v[1])

\* compute_mdp fails exactly when no position has a full window
FailsWhenTooShort ==
    \A w \in WindowSet :
        (compute_mdp(MpSeries, w) = <<None, None>>) <=> (Len(dropna(MpSeries)) < w)

\* C14 as stated: compute_mdp returns (None, None) for an empty or too short
\* series, and render_mdp_summary then shows each such window as N/A and the
\* other windows with their values
C14_FailedWindowsNA ==
    SummarisedMp => (FailsWhenTooShort /\ \A w \in WindowSet : TileShows(w))

\* C14, amended: compute_mdp returns (None, None) for an empty or too short
\* series; render_mdp_summary shows each window that is too short for a
\* non-empty series as N/A and the other windows with their values, and for a
\* series that is empty after dropna it shows no tile but the notice
\* "No MP data available for MDP computation."
C14_FailedWindowsNAOrNotice ==
    SummarisedMp =>
        /\ FailsWhenTooShort
        /\ IF dropna(MpSeries) = <<>>
           THEN MetricTiles = {} /\ NoMpInfo \in Range(st)
           ELSE (\A w \in WindowSet : TileShows(w)) /\ NoMpInfo \notin Range(st)

\* five defined samples: the 5s window has a value, the 10s window is N/A
C14_PartialWitness ==
    /\ SummarisedMp
    /\ Len(dropna(MpSeries)) = 5
    /\ Len(MpSeries) > 5
    /\ \E t \in MetricTiles : t.label = 5 /\ t.value # <<"N/A">>
    /\ \E t \in MetricTiles : t.label = 10 /\ t.value = <<"N/A">>

----------------------------------------------------------------------------
(* Team percentiles and z-scores *)

Compared == pc = "render_team_comparison" /\ squad # Unset

\* the percentile tiles among the emitted elements
PercentileTiles ==
    {st[i] : i \in {j \in 1..Len(st) :
        st[j].el = "metric" /\ st[j].label \in {"Intensity Percentile", "Peak 10s Percentile",
                                                "Total Load Percentile"}}}

\* the z-score captions among the emitted elements
ZCaptions == {i \in 1..Len(st) : "z_score" \in DOMAIN st[i]}

InRange(p) == RatLe(Rat(0, 1), p) /\ RatLe(p, Rat(100, 1))

\* C15: for a team of n >= 1 players every percentile produced is within
\* [0, 100]; the sole maximum of the team gets 100; a team of one gets 100 and
\* a z-score of None, which is shown neither as 0 nor as NaN
C15_Percentiles ==
    Compared =>
        LET x == squad.values[squad.i]
            n == Len(squad.values)
            pct == RowGet(metrics_row, "intensity_percentile")
        IN  /\ notna(pct) /\ InRange(pct.v)
            /\ percentiles.intensity_pct = pct
            /\ \A t \in PercentileTiles : t.value # <<"N/A">> => t.value[1] \in 0..100
            /\ (\A j \in 1..n : j # squad.i => squad.values[j] < x) => pct.v = Rat(100, 1)
            /\ n = 1 => /\ pct.v = Rat(100, 1)
                        /\ RowGet(metrics_row, "z_intensity") = None
                        /\ ZCaptions = {}
                        /\ \E t \in PercentileTiles :
                               t.label = "Intensity Percentile" /\ t.value = <<100, "th">>
            /\ n > 1 => Cardinality(ZCaptions) = 1

C15_SinglePlayerWitness ==
    /\ Compared
    /\ Len(squad.values) = 1
    /\ percentiles.intensity_pct = Num(Rat(100, 1))
    /\ ZCaptions = {}

----------------------------------------------------------------------------
(* Zero spread within the comparison group *)

\* the sub-metrics and the columns their z-scores are stored in
SubMetric(row) ==
    [explosiveness_z |-> row.mdp_10,
     repeatability_z |-> row.mdp_20 + row.mdp_30,
     volume_z |-> row.total_mp_load]

\* every teammate of row i has the same value of the sub-metric behind column z
ZeroSpread(frame, i, z) ==
    \A j \in Teammates(frame, i) : SubMetric(frame[j])[z] = SubMetric(frame[i])[z]

Finite(r) == r # NaN /\ r.den > 0

\* C16: in every returned frame, a sub-metric on which all players of a
\* session agree has a z-score of exactly 0 for each of them, every z-score
\* is a finite number, and so is the session intensity index
C16_ZeroSpreadIsZero ==
    session_df # Unset =>
        LET frame == session_df.v
        IN  \A i \in DOMAIN frame :
                /\ \A z \in DOMAIN SubMetric(frame[i]) :
                       /\ ZeroSpread(frame, i, z) => frame[i][z] = ZeroZ
                       /\ Finite(frame[i][z].coef)
                /\ \A t \in frame[i].session_intensity_index : Finite(t.coef)

\* two teammates agree on one sub-metric and differ on another
C16_ZeroSpreadWitness ==
    /\ session_df # Unset
    /\ \E i \in DOMAIN session_df.v :
           /\ Cardinality(Teammates(session_df.v, i)) > 1
           /\ ZeroSpread(session_df.v, i, "volume_z")
           /\ session_df.v[i].volume_z = ZeroZ
           /\ session_df.v[i].explosiveness_z # ZeroZ
           /\ session_df.v[i].session_intensity_index # {}

----------------------------------------------------------------------------
(* Insights *)

\* the insights among the emitted elements, in order
InsightsShown == SelectSeq(st, LAMBDA x : "insight" \in DOMAIN x)

\* the inputs of the rules the row has
InputsPresent ==
    IF metrics_row.none THEN {}
    ELSE {k \in {"intensity_percentile", "z_intensity"} : notna(RowGet(metrics_row, k))}
         \cup (IF notna(RowGet(metrics_row, "early_mp")) /\ notna(RowGet(metrics_row, "late_mp"))
               THEN {"trend"} ELSE {})

\* the rendering went through and shows no more insights than there are inputs
Degraded ==
    /\ \A i \in 1..Len(st) : st[i].el # "exception"
    /\ Len(InsightsShown) <= Cardinality(InputsPresent)
    /\ \/ InsightsShown # <<>>
       \/ st[Len(st)] \in {InsufficientInfo, NoInsightsCaption}
    /\ trend_data # NoTrend => "trend" \in InputsPresent

\* C17: for every metrics row, a missing or empty one and one with any of the
\* percentile, z-score and early/late values missing included, rendering the
\* trend and the insights completes, shows at most one insight per input
\* present and a notice when there is none; rendering the same row again
\* gives the same elements in the same order
C17_InsightsDegrade ==
    [][pc' = "render_coach_insights" =>
          /\ Degraded'
          /\ calls' = 2 => (st' = st /\ trend_data' = trend_data)]_vars

C17_FewerInsightsWitness ==
    /\ pc = "render_coach_insights"
    /\ calls = 2
    /\ Len(InsightsShown) = 1
    /\ Cardinality(InputsPresent) = 1
    /\ "z_intensity" \in DOMAIN metrics_row.fields
    /\ isna(RowGet(metrics_row, "z_intensity"))

----------------------------------------------------------------------------
(* Exceptions of the Player Analysis page *)

\* the run computed no usable coach metrics
NoUsableMetrics ==
    run.metrics_row # Unset
    /\ (run.metrics_row.none \/ isna(RowGet(run.metrics_row, "intensity_score")))

\* C18: no run of the page ends in an uncaught exception, whatever the loaded
\* data lacks (rows, session dates, signal columns, a date column, computable
\* metrics); a run without usable metrics ends with the notice that no
\* session data is available
C18_NoExceptionPropagates ==
    /\ error = NoError
    /\ page # "failed"
    /\ (page = "rendered" /\ NoUsableMetrics) => NoSessionInfo \in Range(st)

----------------------------------------------------------------------------
(* Weights of the composite intensity *)

\* the sum of the weights in effect
WeightSum(weights) ==
    LET RECURSIVE Sum(_)
        Sum(S) == IF S = {} THEN Rat(0, 1)
                  ELSE LET s == CHOOSE x \in S : TRUE IN RatAdd(weights[s], Sum(S \ {s}))
    IN  Sum(DOMAIN weights)

\* C19: when the intensity is computed from 3 of the 4 signals, the weights
\* in effect are those of the 3 signals, each the weight passed for it divided
\* by the sum of the 3 weights passed, so that they sum to 1
C19_Renormalized ==
    (run.session_data # Unset /\ run.session_data.v.intensity
     /\ Cardinality(AvailableCols(run.raw_df.v)) = 3) =>
        LET weights == run.session_data.v.weights
            available == AvailableCols(run.raw_df.v)
        IN  /\ DOMAIN weights = available
            /\ WeightSum(weights) = Rat(1, 1)
            /\ \A s \in available :
                   weights[s] = Rat(PageSignalWeights[s], WeightTotal(available, PageSignalWeights))

C19_ThreeSignalsWitness ==
    /\ page = "rendered"
    /\ run.session_data.v.intensity
    /\ AvailableCols(run.raw_df.v) = {"speed", "acc", "hr"}
    /\ run.session_data.v.weights["hr"] = Rat(1, 3)

----------------------------------------------------------------------------
(* Coach and Analyst views *)

\* where in the page an element with this text is, 0 when it is not there
Position(text) ==
    LET at == {i \in 1..Len(st) : "text" \in DOMAIN st[i] /\ st[i].text = text}
    IN  IF at = {} THEN 0 ELSE SetMin(at)

BackboneSections == <<"Session Snapshot", "Team Comparison", "Coach's Insights">>

AnalystSections ==
    {"Intensity Over Time (Detailed)", "MDP Summary", "Export for Further Analysis"}

\* the analyst-only sections are there only in Analyst view, after the
\* backbone in the order snapshot, team comparison, trend, insights
AnalystSectionsGated ==
    \A a \in AnalystSections :
        Position(a) > 0 =>
            /\ run.player_view_mode = Str("Analyst")
            /\ 0 < Position("Session Snapshot")
            /\ Position("Session Snapshot") < Position("Team Comparison")
            /\ Position("Team Comparison") < Position("Coach's Insights")
            /\ Position("Intensity Trend") > 0 =>
                   /\ Position("Team Comparison") < Position("Intensity Trend")
                   /\ Position("Intensity Trend") < Position("Coach's Insights")
            /\ Position("Coach's Insights") < Position(a)

\* C20: in every run that has rendered its sections, the window selector is
\* there only in Analyst view, Coach view shows no selector and works with
\* the default windows, and the analyst-only sections are there only in
\* Analyst view, after the backbone sections in their order
C20_ViewModeRule ==
    page = "rendered" =>
        /\ WindowSelector \in Range(st) => run.player_view_mode = Str("Analyst")
        /\ run.player_view_mode = Str("Coach") =>
               (WindowSelector \notin Range(st) /\ run.window_options = DefaultWindows)
        /\ AnalystSectionsGated

----------------------------------------------------------------------------
(* Data coverage and presence indicators of compute_player_mdp_metrics *)

\* the elapsed time of the frame, in seconds
TotalSeconds ==
    LET ts == Range(player_session_df.cols[TimestampCol])
    IN  Rat(SetMax(ts) - SetMin(ts), TicksPerSecond)

\* samples / max(1, total_seconds) * 100
SamplesPerSecondPct ==
    LET d == IF RatLt(TotalSeconds, Rat(1, 1)) THEN Rat(1, 1) ELSE TotalSeconds
    IN  Rat(player_session_df.n * 100 * d.den, d.num)

\* C21: the coverage returned is within [0, 100]: 0 for an empty session,
\* 100 for one sample or no timestamp column, 100 for several samples over an
\* elapsed time of 0, and otherwise min(100, samples / max(1, total_seconds) * 100)
C21_Coverage ==
    Computed =>
        LET coverage == metrics.data_quality.coverage
        IN  /\ InRange(coverage)
            /\ IF EmptyArg THEN coverage = Rat(0, 1)
               ELSE IF player_session_df.n = 1 \/ ~HasCol(player_session_df, TimestampCol)
               THEN coverage = Rat(100, 1)
               ELSE IF TotalSeconds = Rat(0, 1) THEN coverage = Rat(100, 1)
               ELSE IF RatLt(Rat(100, 1), SamplesPerSecondPct) THEN coverage = Rat(100, 1)
               ELSE coverage = SamplesPerSecondPct

\* two samples two and a half seconds apart: 80%
C21_SparseWitness ==
    /\ Computed
    /\ ~EmptyArg
    /\ player_session_df.n = 2
    /\ metrics.data_quality.coverage = Rat(80, 1)

\* C22: in every record returned, has_peak_data is true exactly when one of
\* mdp_5, mdp_10, mdp_20, mdp_30 is not None, exactly when mdp_peak_value is
\* not None, exactly when mdp_peak_window is one of '5s', '10s', '20s', '30s'
C22_IndicatorsAgree ==
    Computed =>
        /\ metrics.has_peak_data <=> (\E w \in WindowSet : metrics.mdp[w] # None)
        /\ metrics.has_peak_data <=> metrics.mdp_peak_value # None
        /\ metrics.has_peak_data <=>
               metrics.mdp_peak_window \in {WindowLabel(w) : w \in WindowSet}
        /\ ~metrics.has_peak_data => metrics.mdp_peak_window = "None"

\* a frame with rows whose intensity columns hold no value at all
C22_AllMissingWitness ==
    /\ Computed
    /\ ~EmptyArg
    /\ \E w \in WindowSet : HasCol(player_session_df, IntensityCol(w))
    /\ ~metrics.has_peak_data
    /\ metrics.mdp_peak_value = None

----------------------------------------------------------------------------
(* apply_filters *)

Filtering == filter_call # NoFilterCall

Returned == Filtering /\ "order" \in DOMAIN filtered

\* the rows that pass the player and the date filter as the claims describe them
PassPlayer(i) ==
    filter_call.selected_players = {}
    \/ filter_call.df[i].player_id \in filter_call.selected_players

PassDate(i) ==
    ~Truthy(filter_call.date_range)
    \/ /\ filter_call.df[i].date >= filter_call.date_range.v[1]
       /\ filter_call.df[i].date <= filter_call.date_range.v[2]

\* the date range is absent, empty, or a start and an end
WholeRange == ~Truthy(filter_call.date_range) \/ Len(filter_call.date_range.v) = 2

Remaining == {i \in DOMAIN filter_call.df : PassPlayer(i) /\ PassDate(i)}

\* the index of the row at place k of the result
IndexAt(k) == filter_call.df[filtered.order[k]].session_intensity_index

\* C23: for any table and any filter settings apply_filters returns rows of
\* the input, each once, that satisfy every active filter, in descending
\* order of session_intensity_index, and leaves the input table unchanged
C23_FilteredRows ==
    Filtering =>
        /\ Returned
        /\ \A k \in DOMAIN filtered.order :
               /\ filtered.order[k] \in DOMAIN filter_call.df
               /\ PassPlayer(filtered.order[k])
               /\ PassDate(filtered.order[k])
        /\ \A j, k \in DOMAIN filtered.order : j < k =>
               (filtered.order[j] # filtered.order[k] /\ IndexAt(j) >= IndexAt(k))
        /\ filter_call.df_after = filter_call.df

\* C24: an empty player selection, and likewise an absent or empty date
\* range, switches that filter off: the rows returned are those of all
\* players that pass the other filters
C24_EmptySelectionDisables ==
    Returned =>
        LET df == filter_call.df
            top(keep) == HighIntensityFilter(df, keep, filter_call.high_intensity_only)
        IN  /\ filter_call.selected_players = {} =>
                   Range(filtered.order) = top({i \in DOMAIN df : PassDate(i)})
            /\ ~Truthy(filter_call.date_range) =>
                   Range(filtered.order) = top({i \in DOMAIN df : PassPlayer(i)})

\* no player selected, a date range set: rows of both players come back
C24_BothPlayersWitness ==
    /\ Returned
    /\ filter_call.selected_players = {}
    /\ Truthy(filter_call.date_range)
    /\ ~filter_call.high_intensity_only
    /\ {filter_call.df[i].player_id : i \in Range(filtered.order)} = {1, 2}
    /\ Len(filtered.order) < Len(filter_call.df)

\* C25: with the top 25% option on, the rows returned are exactly the rows
\* remaining after the player and date filters whose index is at least the
\* 0.75 quantile of those remaining rows; the result is empty only when no
\* row remains
C25_TopQuartile ==
    (Filtering /\ WholeRange /\ filter_call.high_intensity_only) =>
        /\ Returned
        /\ Range(filtered.order) =
               {i \in Remaining : 4 * filter_call.df[i].session_intensity_index
                                      >= Quantile75x4(filter_call.df, Remaining)}
        /\ Remaining # {} <=> filtered.order # <<>>

\* the rows remaining lie below the top quartile of the whole table
C25_FilteredThresholdWitness ==
    /\ Returned
    /\ filter_call.high_intensity_only
    /\ Remaining # {}
    /\ Remaining # DOMAIN filter_call.df
    /\ \A i \in Remaining :
           4 * filter_call.df[i].session_intensity_index
               < Quantile75x4(filter_call.df, DOMAIN filter_call.df)
    /\ filtered.order # <<>>

\* the keys of session_state the selectors and the view mode write
SelectorKeys ==
    {"selected_session_idx", "player_session_select", "viz_player", "player_select",
     "viz_windows", "player_window_select", "player_view_mode", "player_view_mode_radio"}

\* the keys the data loading block creates
LoadingKeys == {"data_loaded", "raw_df", "hr_df", "weights"}

\* session_state says the data is not loaded, or holds no raw dataset
DataMissing == session_state.data_loaded # Bool(TRUE) \/ session_state.raw_df.tag # "df"

\* a run of the page starts in this step
RunStarts == page = "idle" /\ page' # "idle"

\* C26: a run that finds the data not loaded (data_loaded absent or false, or
\* no raw dataset) shows the load warning and stops, with no intensity
\* computed, no selector key written and nothing else rendered, up to the end
\* of the run; and during and after every run the keys data_loaded, raw_df,
\* hr_df and weights exist
C26_LoadGuard ==
    [][/\ (RunStarts /\ DataMissing) =>
           /\ page' = "stopped"
           /\ st' = <<LoadWarning>>
           /\ run' = NoRun
           /\ error' = NoError
           /\ \A k \in SelectorKeys : session_state'[k] = session_state[k]
       /\ (page = "stopped") =>
           /\ page' = "idle"
           /\ st' = <<>> /\ run' = NoRun /\ session_state' = session_state
       /\ (page # "idle" \/ RunStarts) =>
           \A k \in LoadingKeys : InState(session_state', k)]_vars

\* a run stopped by the guard on a first visit, before any data was loaded
C26_StoppedWitness ==
    /\ page = "stopped"
    /\ st = <<LoadWarning>>
    /\ session_state.data_loaded = Bool(FALSE)
    /\ session_state.raw_df = None
    /\ ~InState(session_state, "viz_player")

\* the player selector has run in this run of the page
PlayerSelected ==
    page \in {"selected", "view_mode", "metrics", "render", "rendered"}

\* the options of the session the run has selected
CurrentOptions == Range(PlayerOptions(run.session_data.v.sessions[1]))

\* the widget holds a choice that is one of the options
WidgetChoice(options) ==
    session_state.player_select.tag = "str" /\ session_state.player_select.v \in options

\* C27: in every run, over any sequence of reruns, dataset loads and picks, the
\* player the run uses is one of the options of the session it selected, and
\* viz_player is that player from then on; a remembered viz_player that is not
\* among the options is replaced by "All Players (Average)", which is the
\* player used unless the widget holds a choice among the options
C27_PlayerInOptions ==
    [][/\ PlayerSelected' =>
           /\ run'.player_options = PlayerOptions(run'.session_data.v.sessions[1])
           /\ run'.selected_player_display.v \in CurrentOptions'
           /\ session_state'.viz_player = run'.selected_player_display
           /\ run'.selected_player_id =
                 IF run'.selected_player_display.v = AllPlayers THEN None
                 ELSE run'.selected_player_display
       /\ (page = "player_select") =>
           LET options == Range(PlayerOptions(run.session_data.v.sessions[1]))
               stale == /\ InState(session_state, "viz_player")
                        /\ session_state.viz_player.v \notin options
           IN  /\ (stale /\ ~WidgetChoice(options)) =>
                     run'.selected_player_display = Str(AllPlayers)
               /\ stale <=> run'.replaced_player.tag = "str"]_vars

\* a run that found a remembered player who is not in the selected session and
\* used "All Players (Average)" in their place
C27_StalePlayerWitness ==
    /\ page = "selected"
    /\ run.replaced_player.tag = "str"
    /\ run.replaced_player.v \notin CurrentOptions
    /\ run.selected_player_display = Str(AllPlayers)
    /\ session_state.viz_player = Str(AllPlayers)

\* C28: in every run that reaches the session selector, the index used is a
\* valid index into the session dates of the run, also when it was remembered
\* from a run over a dataset with more dates; it is remembered for the next
\* run, and on a first visit it is the index of the last date
C28_SessionIndexValid ==
    [][(page = "session_select") =>
          LET n == Len(run.session_dates)
          IN  /\ page' = "player_select"
              /\ run'.selected_session_idx.tag = "num"
              /\ run'.selected_session_idx.v \in 0..(n - 1)
              /\ session_state'.selected_session_idx = run'.selected_session_idx
              /\ run'.selected_date = Num(run.session_dates[run'.selected_session_idx.v + 1])
              /\ (/\ ~InState(session_state, "selected_session_idx")
                  /\ ~InState(session_state, "player_session_select")) =>
                    run'.selected_session_idx = Num(n - 1)]_vars

\* the sections of the run have been rendered, up to the end or to a failure
RenderDone == run.metrics_row # Unset /\ page \in {"rendered", "failed"}

\* a metrics row is there and has an intensity score
UsableMetrics ==
    ~run.metrics_row.none /\ notna(RowGet(run.metrics_row, "intensity_score"))

\* what every run shows around the sections: the raw-data warning, the
\* window selector, the view mode toggle and the footer
PageFrame == {RawDataWarning, WindowSelector, ViewModeRadio} \cup Range(Footer)

\* the backbone sections are all there
BackboneShown == \A s \in Range(BackboneSections) : Position(s) > 0

\* the backbone is there exactly for usable metrics
BackboneIffUsable ==
    RenderDone =>
        /\ BackboneShown <=> UsableMetrics
        /\ (\E s \in Range(BackboneSections) : Position(s) > 0) => BackboneShown
        /\ UsableMetrics => (NoSessionInfo \notin Range(st) /\ NoMetricsInfo \notin Range(st))

\* metrics_row is what the selection asks for: nothing after an exception or
\* for no frame, an empty frame or a player without a row; the first row of
\* the selected player; or, with no player selected, the mean of every
\* numeric column over the rows that have a value, named 'Team Average'
RowMatchesSelection ==
    run.metrics_row # Unset =>
        LET df == run.metrics_df
            row == run.metrics_row
            id == run.selected_player_id
        IN  IF df = None \/ df.v = <<>> THEN row.none
            ELSE IF id # None
            THEN IF \A i \in 1..Len(df.v) : df.v[i].player_id # id THEN row.none
                 ELSE /\ ~row.none
                      /\ row.fields \in Range(df.v)
                      /\ row.fields.player_id = id
            ELSE /\ ~row.none
                 /\ "player_id" \notin DOMAIN row.fields
                 /\ RowGet(row, "player_name") = Str("Team Average")
                 /\ \A c \in {"intensity_score", "early_mp", "late_mp"} :
                        LET at == {i \in 1..Len(df.v) : notna(df.v[i][c])}
                            m == RowGet(row, c)
                        IN  IF at = {} THEN m = NaN
                            ELSE /\ m.tag = "num"
                                 /\ m.v * Cardinality(at) = SumOver([i \in at |-> df.v[i][c].v], at)

\* C29 as stated: the backbone is rendered exactly for a metrics row with an
\* intensity score, the row is the selected player's or the team mean, and
\* without usable metrics (no matching row, or the computation raised) the
\* run shows nothing but the notice that no session data is available
C29_OnlyNotice ==
    /\ BackboneIffUsable
    /\ RowMatchesSelection
    /\ (RenderDone /\ ~UsableMetrics) => Range(st) \ PageFrame = {NoSessionInfo}

\* C29, amended: as above, but without usable metrics the run shows the
\* notice and no section, and when the computation raised, the warning that
\* reports the error before the notice
C29_BackboneRule ==
    /\ BackboneIffUsable
    /\ RowMatchesSelection
    /\ (RenderDone /\ ~UsableMetrics) =>
          /\ Range(st) \ PageFrame \in {{NoSessionInfo}, {MetricsWarning, NoSessionInfo}}
          /\ MetricsWarning \in Range(st) =>
                (run.metrics_df = None /\ \E i, j \in 1..Len(st) :
                     i < j /\ st[i] = MetricsWarning /\ st[j] = NoSessionInfo)

\* a run whose metrics computation raised: the warning, then the notice, and no section
C29_RaisedWitness ==
    /\ page = "rendered"
    /\ MetricsWarning \in Range(st)
    /\ NoSessionInfo \in Range(st)
    /\ ~BackboneShown
    /\ run.metrics_row.none

====
